---- MODULE Spec2Model ----
(***************************************************************************)
(* Model of the network-resilience test platform.                          *)
(*                                                                         *)
(* Orchestrator (src/orchestrator-service/src/main.py): the test registry  *)
(* `tests`, the result map `test_results`, one executor coroutine per test *)
(* (execute_test), the REST handlers, and the worker fleet as seen through *)
(* POST /execute, GET /status/{id} and DELETE /execute/{id}.               *)
(*                                                                         *)
(* Worker (src/test-modules/http-module/src/main.py): one worker process   *)
(* with its request handlers, run_test, the worker threads of a test and   *)
(* cleanup_resources. It is checked on its own, as WorkerSpec.             *)
(*                                                                         *)
(* Proxy service (src/proxy-service/src/main.py): the proxy pool with its  *)
(* refresh and validation coroutines and GET /proxies, as ProxySpec.       *)
(*                                                                         *)
(* Gateway (src/gateway-service/src/main.py): the handlers that forward a  *)
(* client's request to the orchestrator, as GatewaySpec; the attempts of   *)
(* make_request for POST /api/test one by one, as RetrySpec.               *)
(*                                                                         *)
(* All handlers run on one asyncio event loop: a handler or coroutine runs *)
(* without interruption from one `await` to the next, so every action      *)
(* below is the code between two suspension points.                        *)
(***************************************************************************)
EXTENDS Bags, FiniteSets, Integers, Naturals, Sequences, TLC

VARIABLES
    tests,          \* tests: test id -> test dict (keys as in the Python dict)
    test_results,   \* test_results: test id -> result dict
    exec,           \* per test: the execute_test coroutine (position, locals)
    stops,          \* bag of stop_test handlers suspended in client.delete()
    fleet,          \* worker side: module test id -> active_tests/test_results
    now,            \* time.time()
    resp            \* the HTTP response the last step sent, if it sent one

vars == <<tests, test_results, exec, stops, fleet, now, resp>>

\* One worker process (src/test-modules/http-module/src/main.py; the tcp and dns
\* modules have the same execute_test, run_test, stop_test and cleanup_resources)
VARIABLES
    active_tests,           \* active_tests: module test id -> test dict
    module_results,         \* the worker's test_results: module test id -> result
    test_stop_events,       \* test_stop_events: module test id -> Event.is_set()
    shutdown_in_progress,   \* the global flag
    active_sessions,        \* registered httpx clients
    active_sockets,         \* registered sockets
    active_executors,       \* registered thread pools
    opened,                 \* every session, socket and pool created so far
    closed,                 \* those of them on which close()/shutdown() was called
    background,             \* run_test tasks added by execute_test, not yet started
    run,                    \* the run_test that occupies the event loop, if any
    units,                  \* worker threads: unit -> position and locals
    metrics,                \* TestMetrics of each test
    expired,                \* time.time() >= end_time of the run
    exiting,                \* sys.exit() was called or the interpreter is exiting
    cleanup,                \* the cleanup_resources calls on the main thread's stack
    wresp                   \* the HTTP response the worker's last step sent

wvars == <<active_tests, module_results, test_stop_events, shutdown_in_progress,
           active_sessions, active_sockets, active_executors, opened, closed,
           background, run, units, metrics, expired, exiting, cleanup, wresp>>

\* The proxy service (src/proxy-service/src/main.py)
VARIABLES
    proxies,            \* proxies: ProxyType -> set of Proxy
    proxy_tasks,        \* bag of refresh_proxies / validate_proxies coroutines
    last_proxy_refresh, \* "stale": more than PROXY_REFRESH_INTERVAL ago; "fresh"
    presp               \* the HTTP response the proxy service's last step sent

pvars == <<proxies, proxy_tasks, last_proxy_refresh, presp>>

\* The gateway (src/gateway-service/src/main.py)
VARIABLES
    gresp,              \* the HTTP response the gateway's last step sent its client
    gcalls              \* the make_request calls of create_test, one per client POST

gvars == <<gresp, gcalls>>

----------------------------------------------------------------------------
(* Bounds of the model *)

MaxTests == 1       \* tests created in one run
MaxStops == 1       \* stop_test handlers suspended in their DELETE at once
MaxTime == 60       \* the clock stops here unless an executor sleeps
MaxModuleTests == 1 \* tests one worker process accepts
MaxUnits == 2       \* threads of a worker-side test
MaxAttempts == 2    \* requests or connections one worker thread attempts
MaxPasses == 1      \* keep-alive passes one slow-loris thread makes
MaxCalls == 1       \* client POST /api/test requests the gateway forwards
MaxProxyTasks == 2  \* refresh and validation coroutines of the proxy service at once

(* Program constants *)

MaxDuration == 300
MaxThreads == 1000
DeadlineBuffer == 60
PollingInterval == 5

----------------------------------------------------------------------------
(* Values *)

QUEUED == "queued"
RUNNING == "running"
COMPLETED == "completed"
FAILED == "failed"
STOPPED == "stopped"

TestStatus == {QUEUED, RUNNING, COMPLETED, FAILED, STOPPED}

\* get_test_results line 611
TerminalStatus == {COMPLETED, FAILED, STOPPED}

\* Optional[int]: <<>> is None, <<v>> is the value v
None == <<>>
Some(v) == <<v>>

\* AVAILABLE_METHODS: method name -> protocol
AVAILABLE_METHODS ==
    [m \in {"HTTP_FLOOD", "HTTP_BYPASS", "SSL_FLOOD", "SLOW_LORIS", "TCP_FLOOD",
            "TCP_CONNECTION", "UDP_FLOOD", "DNS_FLOOD", "ICMP_FLOOD"} |->
        CASE m \in {"HTTP_FLOOD", "HTTP_BYPASS", "SSL_FLOOD", "SLOW_LORIS"} -> "http"
          [] m \in {"TCP_FLOOD", "TCP_CONNECTION"} -> "tcp"
          [] m = "UDP_FLOOD" -> "udp"
          [] m = "DNS_FLOOD" -> "dns"
          [] OTHER -> "icmp"]

\* Variant: every known method is sent to the HTTP fleet
get_service_url_http_only(method) ==
    IF method \notin DOMAIN AVAILABLE_METHODS THEN "ValueError" ELSE "HTTP_MODULE_URL"

\* get_service_url: the fleet of a method, or "ValueError" when it raises
get_service_url(method) ==
    IF method \notin DOMAIN AVAILABLE_METHODS THEN "ValueError"
    ELSE LET protocol == AVAILABLE_METHODS[method] IN
         CASE protocol = "http" -> "HTTP_MODULE_URL"
           [] protocol \in {"tcp", "udp"} -> "TCP_MODULE_URL"
           [] protocol = "dns" -> "DNS_MODULE_URL"
           [] OTHER -> "ValueError"

\* TEST_METHODS of each fleet: the methods its POST /execute accepts
FleetTestMethods(service_url) ==
    CASE service_url = "HTTP_MODULE_URL" ->
             {"HTTP_FLOOD", "SLOW_LORIS", "SSL_FLOOD", "HTTP_BYPASS"}
      [] service_url = "TCP_MODULE_URL" ->
             {"TCP_FLOOD", "UDP_FLOOD", "SYN_FLOOD", "TCP_CONNECTION"}
      [] service_url = "DNS_MODULE_URL" -> {"DNS_FLOOD"}
      [] OTHER -> {}

Fleets == {"HTTP_MODULE_URL", "TCP_MODULE_URL", "DNS_MODULE_URL"}

\* Variant: the method is not checked against the catalog
check_method_exists_unchecked(method) == TRUE

\* check_method_exists: TRUE when no HTTPException(400) is raised
check_method_exists(method) == method \in DOMAIN AVAILABLE_METHODS

\* TestRequest validators: TRUE when the model is constructed
validate_duration(v) == ~(v > MaxDuration)
validate_threads(v) == ~(v > MaxThreads)
validate_target(v) == v # ""

TestRequestValid(r) ==
    /\ validate_duration(r.duration)
    /\ validate_threads(r.threads)
    /\ validate_target(r.target)

\* verify_user: TRUE when the X-User header names a user
verify_user(x_user) == x_user # ""

\* Variant: the ownership check is missing
HasAccessAnyone(test, user) == TRUE

\* "Check if user has access to this test" (get_test, stop_test, get_test_results)
HasAccess(test, user) == ~(test.user # user)

\* Variant: a test is stopped whatever its status
StopAppliesAlways(test) == TRUE

\* stop_test line 507: only a RUNNING test is stopped
StopApplies(test) == ~(test.status # RUNNING)

----------------------------------------------------------------------------
(* TestParameters of the worker fleets: what POST /execute accepts *)

Digits == {"0", "1", "2", "3", "4", "5", "6", "7", "8", "9"}

\* The characters of the target strings that occur in the model
Chars(v) ==
    CASE v = "" -> <<>>
      [] v = "example.test" -> <<"e", "x", "a", "m", "p", "l", "e", ".", "t", "e", "s", "t">>
      [] v = "example.test:80" ->
             <<"e", "x", "a", "m", "p", "l", "e", ".", "t", "e", "s", "t", ":", "8", "0">>
      [] OTHER -> <<"h", "t", "t", "p", ":", "/", "/", "e", "x", "a", "m", "p", "l", "e",
                    ".", "t", "e", "s", "t", "/">>

\* int(port): the value of a string of digits, -1 when int() raises ValueError
RECURSIVE DigitsValue(_)
DigitsValue(c) ==
    IF c = <<>> THEN 0
    ELSE 10 * DigitsValue(SubSeq(c, 1, Len(c) - 1))
           + (CHOOSE n \in 0 .. 9 : ToString(n) = c[Len(c)])

int(c) == IF c # <<>> /\ \A k \in DOMAIN c : c[k] \in Digits THEN DigitsValue(c) ELSE -1

\* tcp-module TestParameters.validate_target: TRUE when the target is accepted,
\* that is when it is host:port with a port in 1..65535
tcp_validate_target(v) ==
    LET c == Chars(v) IN
    IF \E k \in DOMAIN c : c[k] = ":"
    THEN LET first == CHOOSE k \in DOMAIN c : c[k] = ":" /\ \A j \in 1 .. k - 1 : c[j] # ":"
             port == int(SubSeq(c, first + 1, Len(c)))
         IN ~(port < 1 \/ port > 65535)
    ELSE FALSE

\* POST /execute of the fleet at service_url accepts the test's parameters: the
\* http fleet prefixes a scheme when it is missing and the dns fleet appends a
\* default port, so only a malformed port is refused there
ModuleAccepts(service_url, test) ==
    LET c == Chars(test.target) IN
    CASE service_url = "TCP_MODULE_URL" -> tcp_validate_target(test.target)
      [] service_url = "DNS_MODULE_URL" ->
             (\E k \in DOMAIN c : c[k] = ":") => tcp_validate_target(test.target)
      [] OTHER -> TRUE

----------------------------------------------------------------------------
(* Inputs *)

Users == {"alice", "bob"}
Callers == Users \cup {""}

BaseRequest ==
    [target |-> "http://example.test/", method |-> "HTTP_FLOOD",
     duration |-> 1, threads |-> 1, proxy_type |-> None]

\* The base request and the requests that differ from it in one respect
Requests ==
    {BaseRequest}
    \cup {[BaseRequest EXCEPT !.method = m] : m \in {"ICMP_FLOOD", "BOGUS_FLOOD"}}
    \cup {[BaseRequest EXCEPT !.duration = d] : d \in {0, MaxDuration + 1}}
    \cup {[BaseRequest EXCEPT !.threads = t] : t \in {0, MaxThreads + 1}}
    \cup {[BaseRequest EXCEPT !.duration = MaxDuration, !.threads = MaxThreads]}
    \cup {[BaseRequest EXCEPT !.target = ""]}
    \cup {[BaseRequest EXCEPT !.proxy_type = Some(0)]}
    \cup {[BaseRequest EXCEPT !.method = "TCP_FLOOD", !.target = "example.test"]}
    \cup {[BaseRequest EXCEPT !.method = "SYN_FLOOD", !.target = "example.test:80"]}

\* uuid4: the orchestrator mints 1, 2, ...; a fleet mints ids disjoint from them
ModuleId(i) == MaxTests + 1 + i

\* dict helpers
Has(d, k) == k \in DOMAIN d
Put(d, k, v) == [x \in DOMAIN d \cup {k} |-> IF x = k THEN v ELSE d[x]]

----------------------------------------------------------------------------
(* Responses *)

\* TestResponse(...) as built by create_test, get_test, get_tests, stop_test:
\* start_time and end_time are test.get(...), absent while unset
TestResponse(test_id, test) ==
    LET base == [id |-> test_id, target |-> test.target, method |-> test.method,
                 status |-> test.status, user |-> test.user]
        withStart == IF Has(test, "start_time")
                     THEN Put(base, "start_time", test.start_time) ELSE base
    IN IF Has(test, "end_time")
       THEN Put(withStart, "end_time", test.end_time) ELSE withStart

NoBody == <<>>

\* A response: the handler, the caller, the handler's argument (a test id or a
\* TestRequest), the status code and the body
Response(op, user, arg, code, body) ==
    [op |-> op, user |-> user, arg |-> arg, code |-> code, body |-> body]

\* resp names the response sent by the last step; a step that sends none clears it
NoResponse == Response("none", "", 0, 0, NoBody)

\* A gateway response: the handler, the client, the handler's argument, the
\* status code and body sent to the client, and the status code the orchestrator
\* answered with (0 when the orchestrator gave no answer)
GatewayResponse(op, user, arg, code, body, upstream) ==
    [op |-> op, user |-> user, arg |-> arg, code |-> code, body |-> body,
     upstream |-> upstream]

NoGatewayResponse == GatewayResponse("none", "", 0, 0, NoBody, 0)

----------------------------------------------------------------------------
(* Worker fleet: POST /execute, run_test, DELETE /execute/{id}, GET /status/{id} *)

\* execute_test of a worker: the record stored in active_tests
FleetExecute(service) == [service |-> service, status |-> "running", finished |-> FALSE]

\* stop_test of a worker: the fleet after DELETE {service}/execute/{id}
FleetDelete(f, service, id) ==
    IF id \notin DOMAIN f \/ f[id].service # service THEN f                \* 404
    ELSE IF f[id].status # "running" THEN f                                \* 400
    ELSE [f EXCEPT ![id].status = "stopped"]

\* get_test_status of a worker: the JSON body, or <<>> for 404
FleetStatus(f, service, id) ==
    IF id \notin DOMAIN f \/ f[id].service # service THEN <<>>
    ELSE IF f[id].status \in {"completed", "failed", "stopped"}
         THEN [status |-> f[id].status,
               results |-> IF ~f[id].finished
                           THEN [message |-> "No detailed results available"]
                           ELSE IF f[id].status = "failed"
                           THEN [error |-> "worker error"]
                           ELSE [test_id |-> id, metrics |-> "metrics"]]
         ELSE [status |-> f[id].status]

\* run_test of a worker ends: normally, or with an exception
FleetFinish(id, outcome) ==
    /\ id \in DOMAIN fleet
    /\ ~fleet[id].finished
    /\ fleet' = [fleet EXCEPT ![id].finished = TRUE,
                              ![id].status =
                                  IF outcome = "exception" THEN "failed"
                                  ELSE IF @ # "stopped" THEN "completed" ELSE @]
    /\ resp' = NoResponse
    /\ UNCHANGED <<tests, test_results, exec, stops, now>>

\* stop_test of a worker, called by a client other than this orchestrator (the
\* fleet's DELETE /execute/{id} is open to every client that knows the id)
FleetStop(id) ==
    /\ id \in DOMAIN fleet
    /\ fleet[id].status = "running"
    /\ fleet' = FleetDelete(fleet, fleet[id].service, id)
    /\ resp' = NoResponse
    /\ UNCHANGED <<tests, test_results, exec, stops, now>>

----------------------------------------------------------------------------
(* create_test *)

\* Variant: the record is stored as already RUNNING
NewTestRunning(test_id, r, user) ==
    [id |-> test_id, target |-> r.target, method |-> r.method, status |-> RUNNING,
     duration |-> r.duration, threads |-> r.threads, proxy_type |-> r.proxy_type,
     user |-> user]

\* create_test lines 275-286: the test record
NewTest(test_id, r, user) ==
    [id |-> test_id, target |-> r.target, method |-> r.method, status |-> QUEUED,
     duration |-> r.duration, threads |-> r.threads, proxy_type |-> r.proxy_type,
     user |-> user]

NewExec == [pc |-> "queued", service_url |-> "", module_test_id |-> None, wake |-> 0]

\* POST /test (lines 260-299), while the registry has room for `limit` tests
CreateTestWithin(user, r, limit) ==
    LET test_id == Len(tests) + 1 IN
    IF ~verify_user(user) THEN
        /\ resp' = Response("create_test", user, r, 401, NoBody)
        /\ UNCHANGED <<tests, test_results, exec, stops, fleet, now>>
    ELSE IF ~TestRequestValid(r) THEN
        /\ resp' = Response("create_test", user, r, 422, NoBody)
        /\ UNCHANGED <<tests, test_results, exec, stops, fleet, now>>
    ELSE IF ~check_method_exists(r.method) THEN
        /\ resp' = Response("create_test", user, r, 400, NoBody)
        /\ UNCHANGED <<tests, test_results, exec, stops, fleet, now>>
    ELSE
        /\ test_id <= limit
        /\ tests' = Append(tests, NewTest(test_id, r, user))
        /\ exec' = Append(exec, NewExec)
        /\ resp' = Response("create_test", user, r, 200,
                            [id |-> test_id, target |-> r.target, method |-> r.method,
                             status |-> QUEUED, user |-> user])
        /\ UNCHANGED <<test_results, stops, fleet, now>>

CreateTest(user, r) == CreateTestWithin(user, r, MaxTests)

----------------------------------------------------------------------------
(* execute_test: one coroutine per test *)

\* Variant: the exception handler records FAILED without end_time
ExecFailNoEndTime(i, t, error) ==
    /\ tests' = [tests EXCEPT ![i] = [t EXCEPT !.status = FAILED]]
    /\ test_results' = Put(test_results, i, [error |-> error])
    /\ exec' = [exec EXCEPT ![i].pc = "done"]

\* except Exception (lines 413-417): FAILED, end_time, the error as the result
ExecFail(i, t, error) ==
    /\ tests' = [tests EXCEPT ![i] = Put([t EXCEPT !.status = FAILED], "end_time", now)]
    /\ test_results' = Put(test_results, i, [error |-> error])
    /\ exec' = [exec EXCEPT ![i].pc = "done"]

\* expected_end_time (line 357)
expected_end_time(t) == t.start_time + t.duration + DeadlineBuffer

\* Variant: the executor ends at the deadline and leaves the test as it is
AfterLoopGivesUp(i, e) ==
    /\ exec' = [exec EXCEPT ![i] = [e EXCEPT !.pc = "done"]]
    /\ UNCHANGED <<tests, test_results>>

\* After the loop (line 397): a test still RUNNING gets DELETE /execute/{module_test_id}
AfterLoop(i, e) ==
    /\ exec' = [exec EXCEPT ![i] =
                   [e EXCEPT !.pc = IF tests[i].status = RUNNING THEN "stopping" ELSE "done"]]
    /\ UNCHANGED <<tests, test_results>>

\* The head of the poll loop (lines 360-371), up to the await of the status GET
LoopHead(i, e) ==
    IF now < expected_end_time(tests[i])
    THEN IF tests[i].status = STOPPED
         THEN AfterLoop(i, e)
         ELSE /\ exec' = [exec EXCEPT ![i] = [e EXCEPT !.pc = "polling"]]
              /\ UNCHANGED <<tests, test_results>>
    ELSE AfterLoop(i, e)

\* Lines 306-344: RUNNING, start_time, the fleet's URL, then the first await
ExecStart(i) ==
    /\ i \in DOMAIN exec
    /\ exec[i].pc = "queued"
    /\ LET t == Put([tests[i] EXCEPT !.status = RUNNING], "start_time", now)
           service_url == get_service_url(t.method)
       IN IF service_url = "ValueError"
          THEN ExecFail(i, t, "Unsupported protocol")
          ELSE /\ tests' = [tests EXCEPT ![i] = t]
               /\ exec' = [exec EXCEPT ![i].service_url = service_url,
                                       ![i].pc = IF t.proxy_type # None
                                                 THEN "get_proxies" ELSE "starting"]
               /\ UNCHANGED test_results
    /\ resp' = NoResponse
    /\ UNCHANGED <<stops, fleet, now>>

\* get_proxies (lines 193-242): what it returns for each answer of the proxy
\* service; "raise" when the exception is not an httpx.RequestError
ProxyAnswers == {"list", "error_status", "non_list", "transport_error", "invalid_json"}

get_proxies(answer) ==
    CASE answer = "list" -> "proxies"
      [] answer \in {"error_status", "non_list", "transport_error"} -> "empty"
      [] OTHER -> "raise"

\* Lines 317-344: get_proxies returns, POST /execute is sent
ProxiesReturn(i, answer) ==
    /\ i \in DOMAIN exec
    /\ exec[i].pc = "get_proxies"
    /\ IF get_proxies(answer) = "raise"
       THEN ExecFail(i, tests[i], "invalid proxy response")
       ELSE /\ exec' = [exec EXCEPT ![i].pc = "starting"]
            /\ UNCHANGED <<tests, test_results>>
    /\ resp' = NoResponse
    /\ UNCHANGED <<stops, fleet, now>>

\* Variant: a failed start is recorded as the result, the test stays RUNNING
StartFailedStaysRunning(i, answer) ==
    /\ test_results' = Put(test_results, i, [error |-> answer])
    /\ exec' = [exec EXCEPT ![i].pc = "done"]
    /\ UNCHANGED tests

\* Lines 346-352 and 413-417: a status other than 200, a body without test_id
\* or an exception of client.post raise into `except Exception`
StartFailed(i, answer) == ExecFail(i, tests[i], answer)

\* Lines 340-371: the answer to POST /execute
StartAnswers == {"started", "rejected", "no_test_id", "transport_error"}

StartReturn(i, answer) ==
    /\ i \in DOMAIN exec
    /\ exec[i].pc = "starting"
    /\ answer = "started" => ModuleAccepts(exec[i].service_url, tests[i])
    /\ IF answer = "started"
       THEN /\ fleet' = Put(fleet, ModuleId(i), FleetExecute(exec[i].service_url))
            /\ LoopHead(i, [exec[i] EXCEPT !.module_test_id = Some(ModuleId(i))])
       ELSE /\ StartFailed(i, answer)
            /\ UNCHANGED fleet
    /\ resp' = NoResponse
    /\ UNCHANGED <<stops, now>>

\* Lines 368-394: the answer to GET /status/{module_test_id}
PollAnswers == {"response", "transport_error", "invalid_body"}

PollReturn(i, answer) ==
    /\ i \in DOMAIN exec
    /\ exec[i].pc = "polling"
    /\ LET module_status == FleetStatus(fleet, exec[i].service_url,
                                        Head(exec[i].module_test_id))
       IN CASE answer = "invalid_body" ->
                 ExecFail(i, tests[i], "invalid status body")
            [] answer = "response" /\ Has(module_status, "status")
                 /\ module_status.status \in {"completed", "failed", "stopped"} ->
                 /\ tests' = [tests EXCEPT ![i] =
                        Put([@ EXCEPT !.status =
                                IF module_status.status = "completed"
                                THEN COMPLETED ELSE FAILED],
                            "end_time", now)]
                 /\ test_results' = IF Has(module_status, "results")
                                    THEN Put(test_results, i, module_status.results)
                                    ELSE test_results
                 /\ exec' = [exec EXCEPT ![i].pc = "done"]
            [] OTHER ->
                 /\ exec' = [exec EXCEPT ![i].pc = "sleeping",
                                         ![i].wake = now + PollingInterval]
                 /\ UNCHANGED <<tests, test_results>>
    /\ resp' = NoResponse
    /\ UNCHANGED <<stops, fleet, now>>

\* Line 394: asyncio.sleep(polling_interval) returns, then the loop head
SleepReturn(i) ==
    /\ i \in DOMAIN exec
    /\ exec[i].pc = "sleeping"
    /\ now >= exec[i].wake
    /\ LoopHead(i, [exec[i] EXCEPT !.wake = 0])
    /\ resp' = NoResponse
    /\ UNCHANGED <<stops, fleet, now>>

\* Lines 401-411: the deadline's DELETE returns or raises; COMPLETED either way
DeleteAnswers == {"delivered", "transport_error"}

DeadlineDeleteReturn(i, answer) ==
    /\ i \in DOMAIN exec
    /\ exec[i].pc = "stopping"
    /\ fleet' = IF answer = "delivered"
                THEN FleetDelete(fleet, exec[i].service_url, Head(exec[i].module_test_id))
                ELSE fleet
    /\ tests' = [tests EXCEPT ![i] = Put([@ EXCEPT !.status = COMPLETED], "end_time", now)]
    /\ test_results' = Put(test_results, i,
                           [message |-> "Test completed after maximum duration"])
    /\ exec' = [exec EXCEPT ![i].pc = "done"]
    /\ resp' = NoResponse
    /\ UNCHANGED <<stops, now>>

----------------------------------------------------------------------------
(* stop_test *)

\* Lines 524-536: the id put in the DELETE's URL
StopModuleTestId(test_id) ==
    LET test == tests[test_id]
        matches == {result_id \in DOMAIN test_results :
                        /\ Has(test_results[result_id], "test_id")
                        /\ test_results[result_id].test_id = test_id}
    IN IF Has(test, "module_test_id") THEN test.module_test_id
       ELSE IF matches # {} THEN CHOOSE result_id \in matches : TRUE
       ELSE test_id

\* Variant: the test is marked STOPPED without end_time
MarkStoppedNoEndTime(test_id) ==
    /\ tests' = [tests EXCEPT ![test_id].status = STOPPED]
    /\ resp' = Response("stop_test", tests[test_id].user, test_id, 200,
                        TestResponse(test_id, tests'[test_id]))

\* Lines 556-576 and 561-576: STOPPED, end_time, the response
MarkStopped(test_id) ==
    /\ tests' = [tests EXCEPT ![test_id] = Put([@ EXCEPT !.status = STOPPED], "end_time", now)]
    /\ resp' = Response("stop_test", tests[test_id].user, test_id, 200,
                        TestResponse(test_id, tests'[test_id]))

\* Lines 487-544: up to the await of client.delete()
StopTest(user, test_id) ==
    /\ IF ~verify_user(user) THEN
           /\ resp' = Response("stop_test", user, test_id, 401, NoBody)
           /\ UNCHANGED <<tests, stops>>
       ELSE IF test_id \notin DOMAIN tests THEN
           /\ resp' = Response("stop_test", user, test_id, 404, NoBody)
           /\ UNCHANGED <<tests, stops>>
       ELSE IF ~HasAccess(tests[test_id], user) THEN
           /\ resp' = Response("stop_test", user, test_id, 403, NoBody)
           /\ UNCHANGED <<tests, stops>>
       ELSE IF ~StopApplies(tests[test_id]) THEN
           /\ resp' = Response("stop_test", user, test_id, 200,
                               TestResponse(test_id, tests[test_id]))
           /\ UNCHANGED <<tests, stops>>
       ELSE IF get_service_url(tests[test_id].method) = "ValueError" THEN
           /\ MarkStopped(test_id)
           /\ UNCHANGED stops
       ELSE
           /\ BagCardinality(stops) < MaxStops
           /\ stops' = stops (+) SetToBag({[test_id |-> test_id,
                                             service_url |-> get_service_url(tests[test_id].method),
                                             module_test_id |-> StopModuleTestId(test_id)]})
           /\ resp' = NoResponse
           /\ UNCHANGED tests
    /\ UNCHANGED <<test_results, exec, fleet, now>>

\* Lines 542-576: the DELETE returns (any status) or raises; STOPPED either way
StopDeleteReturn(h, answer) ==
    /\ BagIn(h, stops)
    /\ stops' = stops (-) SetToBag({h})
    /\ fleet' = IF answer = "delivered"
                THEN FleetDelete(fleet, h.service_url, h.module_test_id)
                ELSE fleet
    /\ MarkStopped(h.test_id)
    /\ UNCHANGED <<test_results, exec, now>>

----------------------------------------------------------------------------
(* get_test, get_tests, get_test_results *)

GetTest(user, test_id) ==
    /\ resp' = IF ~verify_user(user) THEN Response("get_test", user, test_id, 401, NoBody)
               ELSE IF test_id \notin DOMAIN tests
               THEN Response("get_test", user, test_id, 404, NoBody)
               ELSE IF ~HasAccess(tests[test_id], user)
               THEN Response("get_test", user, test_id, 403, NoBody)
               ELSE Response("get_test", user, test_id, 200,
                             TestResponse(test_id, tests[test_id]))
    /\ UNCHANGED <<tests, test_results, exec, stops, fleet, now>>

\* get_tests: the caller's tests, in registry order
UserTests(user) ==
    SelectSeq([test_id \in DOMAIN tests |-> TestResponse(test_id, tests[test_id])],
              LAMBDA r : r.user = user)

GetTests(user) ==
    /\ resp' = IF ~verify_user(user) THEN Response("get_tests", user, 0, 401, NoBody)
               ELSE Response("get_tests", user, 0, 200, UserTests(user))
    /\ UNCHANGED <<tests, test_results, exec, stops, fleet, now>>

\* get_test_results: the body for a test the caller owns
ResultsBody(test_id) ==
    IF test_id \in DOMAIN test_results THEN test_results[test_id]
    ELSE [message |-> "No results available"]

GetTestResults(user, test_id) ==
    /\ resp' = IF ~verify_user(user)
               THEN Response("get_test_results", user, test_id, 401, NoBody)
               ELSE IF test_id \notin DOMAIN tests
               THEN Response("get_test_results", user, test_id, 404, NoBody)
               ELSE IF ~HasAccess(tests[test_id], user)
               THEN Response("get_test_results", user, test_id, 403, NoBody)
               ELSE IF tests[test_id].status \notin TerminalStatus
               THEN Response("get_test_results", user, test_id, 400, NoBody)
               ELSE Response("get_test_results", user, test_id, 200, ResultsBody(test_id))
    /\ UNCHANGED <<tests, test_results, exec, stops, fleet, now>>

----------------------------------------------------------------------------
(* Time *)

\* The clock is read at a granularity of DeadlineBuffer seconds. It moves while
\* some executor is still running, and always while an executor is in
\* asyncio.sleep: a sleep ends, so the poll loop runs up to its deadline
TimeSteps == {DeadlineBuffer}

Tick(d) ==
    /\ \/ now + d <= MaxTime /\ \E i \in DOMAIN exec : exec[i].pc # "done"
       \/ \E i \in DOMAIN exec : exec[i].pc = "sleeping" /\ exec[i].wake > now
    /\ now' = now + d
    /\ resp' = NoResponse
    /\ UNCHANGED <<tests, test_results, exec, stops, fleet>>

----------------------------------------------------------------------------
(* The worker process: POST /execute, DELETE /execute/{id}, GET /status/{id} *)

\* TEST_METHODS of the http module (the two methods the model runs)
TEST_METHODS == {"HTTP_FLOOD", "SLOW_LORIS"}

\* TestParameters a caller may post: method and threads
ModuleParams ==
    [method : TEST_METHODS \cup {"BOGUS_FLOOD"}, threads : 0 .. MaxUnits]

\* The ids a caller may name: every id the worker can mint, and one it cannot
ModuleIds == {ModuleId(k) : k \in 1 .. MaxModuleTests + 1}

\* Resources are named by kind, owning thread (0: the event loop) and ordinal
Session(u) == <<"session", u, 0>>
Socket(u, n) == <<"socket", u, n>>
Executor(test_id) == <<"executor", 0, test_id>>

\* A worker response: the handler, its argument, the status code and the body
ModuleResponse(op, arg, code, body) == [op |-> op, arg |-> arg, code |-> code, body |-> body]

NoModuleResponse == ModuleResponse("none", 0, 0, NoBody)

\* The event loop runs one coroutine at a time: a handler runs only while no
\* run_test is inside its test method, none while the main thread is inside
\* cleanup_resources, and never once the process is exiting
LoopFree == run = None /\ ~exiting /\ cleanup = <<>>

\* Variant: POST /execute is accepted during shutdown
AcceptsTestsAlways == TRUE

\* execute_test line 780: new tests are refused during shutdown
AcceptsTests == ~shutdown_in_progress

\* POST /execute
execute_test(p) ==
    LET test_id == ModuleId(Cardinality(DOMAIN active_tests) + 1) IN
    /\ LoopFree
    /\ IF ~AcceptsTests THEN
           /\ wresp' = ModuleResponse("execute_test", p, 503, NoBody)
           /\ UNCHANGED <<active_tests, test_stop_events, metrics, background>>
       ELSE IF p.method \notin TEST_METHODS THEN
           /\ wresp' = ModuleResponse("execute_test", p, 400, NoBody)
           /\ UNCHANGED <<active_tests, test_stop_events, metrics, background>>
       ELSE
           /\ Cardinality(DOMAIN active_tests) < MaxModuleTests
           /\ test_stop_events' = Put(test_stop_events, test_id, FALSE)
           /\ metrics' = Put(metrics, test_id,
                             [requests_sent |-> 0, bytes_sent |-> 0,
                              successful_requests |-> 0, failed_requests |-> 0])
           /\ active_tests' = Put(active_tests, test_id,
                                  [id |-> test_id, params |-> p, status |-> "running"])
           /\ background' = background \cup {test_id}
           /\ wresp' = ModuleResponse("execute_test", p, 200,
                                      [test_id |-> test_id, status |-> "started"])
    /\ UNCHANGED <<module_results, shutdown_in_progress, active_sessions, active_sockets,
                   active_executors, opened, closed, run, units, expired, exiting, cleanup>>

\* Variant: DELETE marks the test stopped without setting its stop event
StopEventsAfterDeleteUnset(test_id) == test_stop_events

\* stop_test lines 869-870: the test's stop event is set
StopEventsAfterDelete(test_id) ==
    IF test_id \in DOMAIN test_stop_events
    THEN [test_stop_events EXCEPT ![test_id] = TRUE]
    ELSE test_stop_events

\* DELETE /execute/{test_id}
stop_test(test_id) ==
    /\ LoopFree
    /\ IF test_id \notin DOMAIN active_tests THEN
           /\ wresp' = ModuleResponse("stop_test", test_id, 404, NoBody)
           /\ UNCHANGED <<active_tests, test_stop_events>>
       ELSE IF active_tests[test_id].status # "running" THEN
           /\ wresp' = ModuleResponse("stop_test", test_id, 400, NoBody)
           /\ UNCHANGED <<active_tests, test_stop_events>>
       ELSE
           /\ test_stop_events' = StopEventsAfterDelete(test_id)
           /\ active_tests' = [active_tests EXCEPT ![test_id] =
                                  Put([@ EXCEPT !.status = "stopped"], "end_time", TRUE)]
           /\ wresp' = ModuleResponse("stop_test", test_id, 200,
                                      [test_id |-> test_id, status |-> "stopped"])
    /\ UNCHANGED <<module_results, shutdown_in_progress, active_sessions, active_sockets,
                   active_executors, opened, closed, background, run, units, metrics,
                   expired, exiting, cleanup>>

\* The attributes of a Python dict (its methods); its keys are not attributes
DictAttributes == {"clear", "copy", "fromkeys", "get", "items", "keys", "pop", "popitem",
                   "setdefault", "update", "values"}

\* hasattr(test, name) for the dict test
hasattr(test, name) == name \in DictAttributes

\* GET /status/{test_id}
get_test_status(test_id) ==
    /\ LoopFree
    /\ wresp' =
          IF test_id \notin DOMAIN active_tests
          THEN ModuleResponse("get_test_status", test_id, 404, NoBody)
          ELSE LET test == active_tests[test_id]
                   response == [test_id |-> test_id, status |-> test.status]
                   live == IF /\ test.status = "running"
                              /\ hasattr(test, "metrics")
                              /\ Has(test, "metrics")
                           THEN Put(response, "current_metrics", test.metrics)
                           ELSE response
               IN ModuleResponse("get_test_status", test_id, 200,
                     IF test.status \in {"completed", "failed", "stopped"}
                     THEN Put(live, "results",
                              IF test_id \in DOMAIN module_results
                              THEN module_results[test_id]
                              ELSE [message |-> "No detailed results available"])
                     ELSE live)
    /\ UNCHANGED <<active_tests, module_results, test_stop_events, shutdown_in_progress,
                   active_sessions, active_sockets, active_executors, opened, closed,
                   background, run, units, metrics, expired, exiting, cleanup>>

----------------------------------------------------------------------------
(* run_test and the test methods (execute_http_flood, execute_slow_loris) *)

\* The loop condition of the threads and of the spawn loop: the test's stop
\* event is set, or the process is shutting down
StopRequested(test_id) ==
    \/ shutdown_in_progress
    \/ test_id \in DOMAIN test_stop_events /\ test_stop_events[test_id]

\* Variant: the completion path always writes "completed"
CompletedStatusOverwrites(status) == "completed"

\* run_test lines 839-840: "Only update if test isn't already stopped"
CompletedStatus(status) == IF status # "stopped" THEN "completed" ELSE status

\* run_test starts on the event loop (lines 827-832) and enters the test method,
\* up to the creation of the thread pool; ThreadPoolExecutor(max_workers=0)
\* raises ValueError, which run_test records as a failed test
RunBegin(test_id) ==
    /\ LoopFree
    /\ test_id \in background
    /\ background' = background \ {test_id}
    /\ IF active_tests[test_id].params.threads <= 0
       THEN /\ active_tests' = [active_tests EXCEPT ![test_id] =
                                   Put([@ EXCEPT !.status = "failed"], "end_time", TRUE)]
            /\ module_results' = Put(module_results, test_id, [error |-> "ValueError"])
            /\ test_stop_events' = [id \in DOMAIN test_stop_events \ {test_id} |->
                                       test_stop_events[id]]
            /\ UNCHANGED <<active_executors, opened, run, expired>>
       ELSE /\ opened' = opened \cup {Executor(test_id)}
            /\ expired' = FALSE
            /\ active_executors' = IF ~shutdown_in_progress
                                   THEN active_executors \cup {Executor(test_id)}
                                   ELSE active_executors
            /\ run' = Some([test_id |-> test_id, i |-> 0, pc |-> "submit"])
            /\ UNCHANGED <<active_tests, module_results, test_stop_events>>
    /\ wresp' = NoModuleResponse
    /\ UNCHANGED <<shutdown_in_progress, active_sessions, active_sockets, closed, units,
                   metrics, exiting, cleanup>>

\* The counters of TestMetrics (lines 126-132)
Counters == {"requests_sent", "bytes_sent", "successful_requests", "failed_requests"}

\* Threads are numbered across tests: thread i of the k-th test
UnitId(test_id, i) == (test_id - ModuleId(1)) * MaxUnits + i

\* A thread as executor.submit starts it
NewUnit(test_id, method) ==
    [test_id |-> test_id, method |-> method,
     pc |-> IF method = "HTTP_FLOOD" THEN "session" ELSE "loop",
     attempts |-> 0, cur |-> None, kept |-> {}, pending |-> {}, passes |-> 0,
     late |-> [c \in Counters |-> 0]]

\* The spawn loop (execute_http_flood lines 271-281): one thread per iteration,
\* left as soon as a stop or a shutdown is seen
RunSubmit ==
    /\ run # None /\ ~exiting /\ cleanup = <<>>
    /\ Head(run).pc = "submit"
    /\ LET r == Head(run)
           test == active_tests[r.test_id]
       IN IF r.i >= test.params.threads \/ StopRequested(r.test_id)
          THEN /\ run' = Some([r EXCEPT !.pc = "wait"])
               /\ UNCHANGED units
          ELSE /\ units' = Put(units, UnitId(r.test_id, r.i + 1),
                               NewUnit(r.test_id, test.params.method))
               /\ run' = Some([r EXCEPT !.i = r.i + 1])
    /\ wresp' = NoModuleResponse
    /\ UNCHANGED <<active_tests, module_results, test_stop_events, shutdown_in_progress,
                   active_sessions, active_sockets, active_executors, opened, closed,
                   background, metrics, expired, exiting, cleanup>>

\* as_completed(futures, timeout=duration + 10) raises TimeoutError while a
\* thread is still running (lines 285-291): the warning is logged and the with
\* block of the pool is left
WaitTimeout ==
    /\ run # None /\ ~exiting /\ cleanup = <<>>
    /\ Head(run).pc = "wait"
    /\ expired
    /\ \E u \in DOMAIN units :
          units[u].test_id = Head(run).test_id /\ units[u].pc # "exited"
    /\ run' = Some([Head(run) EXCEPT !.pc = "join"])
    /\ wresp' = NoModuleResponse
    /\ UNCHANGED <<active_tests, module_results, test_stop_events, shutdown_in_progress,
                   active_sessions, active_sockets, active_executors, opened, closed,
                   background, units, metrics, expired, exiting, cleanup>>

\* Variant: leaving the pool's with block does not wait for the threads
JoinedWithoutWaiting(test_id) == TRUE

\* Leaving `with ThreadPoolExecutor(...)` (line 269) calls shutdown(wait=True),
\* which joins every thread of the pool
Joined(test_id) ==
    \A u \in DOMAIN units : units[u].test_id = test_id => units[u].pc = "exited"

\* as_completed has yielded every future, or has timed out; the pool's
\* shutdown(wait=True) returns once every thread has returned; then lines
\* 295-304 and run_test lines 835-854
RunEnd ==
    /\ run # None /\ ~exiting /\ cleanup = <<>>
    /\ Head(run).pc \in {"wait", "join"}
    /\ Joined(Head(run).test_id)
    /\ LET test_id == Head(run).test_id IN
       /\ closed' = closed \cup {Executor(test_id)}
       /\ module_results' = Put(module_results, test_id,
                                [test_id |-> test_id, metrics |-> metrics[test_id]])
       /\ active_tests' = [active_tests EXCEPT ![test_id] =
                              Put([@ EXCEPT !.status = CompletedStatus(@)], "end_time", TRUE)]
       /\ test_stop_events' = [id \in DOMAIN test_stop_events \ {test_id} |->
                                  test_stop_events[id]]
    /\ run' = None
    /\ wresp' = NoModuleResponse
    /\ UNCHANGED <<shutdown_in_progress, active_sessions, active_sockets, active_executors,
                   opened, background, units, metrics, expired, exiting, cleanup>>

\* sys.exit() in the signal handler raises SystemExit inside the test method: the
\* pool's shutdown(wait=True) still waits for the threads, then only run_test's
\* finally clause runs
RunAbort ==
    /\ run # None /\ exiting /\ cleanup = <<>>
    /\ Joined(Head(run).test_id)
    /\ closed' = closed \cup {Executor(Head(run).test_id)}
    /\ test_stop_events' = [id \in DOMAIN test_stop_events \ {Head(run).test_id} |->
                               test_stop_events[id]]
    /\ run' = None
    /\ wresp' = NoModuleResponse
    /\ UNCHANGED <<active_tests, module_results, shutdown_in_progress, active_sessions,
                   active_sockets, active_executors, opened, background, units, metrics,
                   expired, exiting, cleanup>>

\* time.time() reaches end_time of the run
TimePasses ==
    /\ run # None /\ ~expired
    /\ expired' = TRUE
    /\ wresp' = NoModuleResponse
    /\ UNCHANGED <<active_tests, module_results, test_stop_events, shutdown_in_progress,
                   active_sessions, active_sockets, active_executors, opened, closed,
                   background, run, units, metrics, exiting, cleanup>>

----------------------------------------------------------------------------
(* The worker threads: http_flood_worker and slow_loris_worker *)

\* line 346: the approximate size of a request, without its headers
RequestBytes == 100

\* line 480: the size counted for a keep-alive header
KeepAliveBytes == 10

\* line 430: max_sockets = 150 connections per thread, scaled to the attempts
\* the model follows
max_sockets == MaxAttempts

\* The while condition of a thread is false
UnitMustStop(u) == expired \/ StopRequested(units[u].test_id)

\* Counter.increment(amount) on each counter named in amounts (lines 112-115)
Increment(m, amounts) ==
    [c \in DOMAIN m |-> IF c \in DOMAIN amounts THEN m[c] + amounts[c] ELSE m[c]]

\* How often thread u has incremented each counter since the stop of its test
\* was requested, after it increments the counters named in amounts
LateAfter(u, amounts) ==
    IF StopRequested(units[u].test_id)
    THEN [c \in Counters |-> units[u].late[c] + IF c \in DOMAIN amounts THEN 1 ELSE 0]
    ELSE units[u].late

\* What a thread leaves alone
UnitFrame ==
    /\ wresp' = NoModuleResponse
    /\ UNCHANGED <<active_tests, module_results, test_stop_events, shutdown_in_progress,
                   active_executors, background, run, expired, exiting, cleanup>>

\* http_flood_worker lines 323-327: the client is created; register_session reads
\* shutdown_in_progress
HttpCreateSession(u) ==
    /\ u \in DOMAIN units /\ units[u].pc = "session"
    /\ opened' = opened \cup {Session(u)}
    /\ units' = [units EXCEPT ![u].pc = IF ~shutdown_in_progress THEN "register" ELSE "loop"]
    /\ UnitFrame
    /\ UNCHANGED <<active_sessions, active_sockets, closed, metrics>>

\* register_session / register_socket: the add that follows the read of the flag
UnitRegister(u) ==
    /\ u \in DOMAIN units /\ units[u].pc = "register"
    /\ IF units[u].method = "HTTP_FLOOD"
       THEN /\ active_sessions' = active_sessions \cup {Session(u)}
            /\ units' = [units EXCEPT ![u].pc = "loop"]
            /\ UNCHANGED active_sockets
       ELSE /\ active_sockets' = active_sockets \cup {Head(units[u].cur)}
            /\ units' = [units EXCEPT ![u].pc = "connect"]
            /\ UNCHANGED active_sessions
    /\ UnitFrame
    /\ UNCHANGED <<opened, closed, metrics>>

\* http_flood_worker lines 330-356: one request; an exception of session.get
\* (also: the session was closed by cleanup) counts a failure only
HttpRequest(u, outcome) ==
    /\ u \in DOMAIN units /\ units[u].pc = "loop" /\ units[u].method = "HTTP_FLOOD"
    /\ ~UnitMustStop(u)
    /\ units[u].attempts < MaxAttempts
    /\ outcome # "exception" => Session(u) \notin closed
    /\ LET amounts ==
              CASE outcome = "response" ->
                      [requests_sent |-> 1, bytes_sent |-> RequestBytes,
                       successful_requests |-> 1]
                [] outcome = "server_error" ->
                      [requests_sent |-> 1, bytes_sent |-> RequestBytes,
                       failed_requests |-> 1]
                [] OTHER -> [failed_requests |-> 1]
       IN /\ units' = [units EXCEPT ![u].attempts = @ + 1,
                                     ![u].late = LateAfter(u, amounts)]
          /\ metrics' = [metrics EXCEPT ![units[u].test_id] = Increment(@, amounts)]
    /\ UnitFrame
    /\ UNCHANGED <<active_sessions, active_sockets, opened, closed>>

\* http_flood_worker lines 358-359: finally session.close()
HttpExit(u) ==
    /\ u \in DOMAIN units /\ units[u].pc = "loop" /\ units[u].method = "HTTP_FLOOD"
    /\ UnitMustStop(u)
    /\ closed' = closed \cup {Session(u)}
    /\ units' = [units EXCEPT ![u].pc = "exited"]
    /\ UnitFrame
    /\ UNCHANGED <<active_sessions, active_sockets, opened, metrics>>

\* slow_loris_worker lines 433-437: a socket is created; register_socket reads
\* shutdown_in_progress
SlowLorisOpen(u) ==
    /\ u \in DOMAIN units /\ units[u].pc = "loop" /\ units[u].method = "SLOW_LORIS"
    /\ ~UnitMustStop(u)
    /\ units[u].attempts < MaxAttempts
    /\ LET s == Socket(u, units[u].attempts + 1) IN
       /\ opened' = opened \cup {s}
       /\ units' = [units EXCEPT ![u].attempts = @ + 1, ![u].cur = Some(s),
                                 ![u].pc = IF ~shutdown_in_progress
                                           THEN "register" ELSE "connect"]
    /\ UnitFrame
    /\ UNCHANGED <<active_sessions, active_sockets, closed, metrics>>

\* slow_loris_worker lines 439-472: connect and the first sends succeed and the
\* socket is kept, or one of them raises and only a failure is counted
SlowLorisConnect(u, outcome) ==
    /\ u \in DOMAIN units /\ units[u].pc = "connect"
    /\ outcome = "connected" => Head(units[u].cur) \notin closed
    /\ LET amounts == IF outcome = "connected"
                      THEN [requests_sent |-> 1, successful_requests |-> 1]
                      ELSE [failed_requests |-> 1]
       IN /\ units' = [units EXCEPT
                         ![u].kept = IF outcome = "connected"
                                     THEN @ \cup {Head(units[u].cur)} ELSE @,
                         ![u].cur = None, ![u].pc = "loop",
                         ![u].late = LateAfter(u, amounts)]
          /\ metrics' = [metrics EXCEPT ![units[u].test_id] = Increment(@, amounts)]
    /\ UnitFrame
    /\ UNCHANGED <<active_sessions, active_sockets, opened, closed>>

\* slow_loris_worker lines 474-475: the creation loop has ended with max_sockets
\* connections and the keep-alive loop's condition holds: a pass over
\* list(sockets) begins
SlowLorisKeepAlive(u) ==
    /\ u \in DOMAIN units /\ units[u].pc = "loop" /\ units[u].method = "SLOW_LORIS"
    /\ ~UnitMustStop(u)
    /\ units[u].passes > 0 \/ Cardinality(units[u].kept) >= max_sockets
    /\ units[u].passes < MaxPasses
    /\ units[u].kept # {}
    /\ units' = [units EXCEPT ![u].pc = "keepalive", ![u].pending = units[u].kept,
                              ![u].passes = @ + 1]
    /\ UnitFrame
    /\ UNCHANGED <<active_sessions, active_sockets, opened, closed, metrics>>

\* slow_loris_worker lines 476-480: inside the pass, with no test of the stop
\* event or of the flag, a header is sent on the next socket and counted
SlowLorisKeepAliveSend(u, s) ==
    /\ u \in DOMAIN units /\ units[u].pc = "keepalive"
    /\ s \in units[u].pending
    /\ s \notin closed
    /\ LET amounts == [bytes_sent |-> KeepAliveBytes] IN
       /\ units' = [units EXCEPT ![u].pending = @ \ {s},
                                 ![u].late = LateAfter(u, amounts)]
       /\ metrics' = [metrics EXCEPT ![units[u].test_id] = Increment(@, amounts)]
    /\ UnitFrame
    /\ UNCHANGED <<active_sessions, active_sockets, opened, closed>>

\* slow_loris_worker lines 481-487: a keep-alive send fails, the socket is removed
\* from the list and closed
SlowLorisKeepAliveError(u, s) ==
    /\ u \in DOMAIN units /\ units[u].pc = "keepalive"
    /\ s \in units[u].pending
    /\ units' = [units EXCEPT ![u].kept = @ \ {s}, ![u].pending = @ \ {s}]
    /\ closed' = closed \cup {s}
    /\ UnitFrame
    /\ UNCHANGED <<active_sessions, active_sockets, opened, metrics>>

\* slow_loris_worker line 490: the pass is over; after time.sleep(5) the
\* keep-alive loop tests its condition again
SlowLorisKeepAliveEnd(u) ==
    /\ u \in DOMAIN units /\ units[u].pc = "keepalive"
    /\ units[u].pending = {}
    /\ units' = [units EXCEPT ![u].pc = "loop"]
    /\ UnitFrame
    /\ UNCHANGED <<active_sessions, active_sockets, opened, closed, metrics>>

\* slow_loris_worker lines 492-498: finally closes the sockets in its list
SlowLorisExit(u) ==
    /\ u \in DOMAIN units /\ units[u].pc = "loop" /\ units[u].method = "SLOW_LORIS"
    /\ UnitMustStop(u)
    /\ closed' = closed \cup units[u].kept
    /\ units' = [units EXCEPT ![u].pc = "exited"]
    /\ UnitFrame
    /\ UNCHANGED <<active_sessions, active_sockets, opened, metrics>>

----------------------------------------------------------------------------
(* cleanup_resources and its triggers *)

\* signal_handler, on_shutdown and atexit all call cleanup_resources. A signal
\* handler runs on the main thread at any moment, also inside a test method, and
\* ends in sys.exit(0); on_shutdown is a coroutine of the event loop; atexit runs
\* when the interpreter exits
CleanupTriggers == {"signal", "shutdown_event", "atexit"}

\* cleanup_resources lines 175-185, called by trigger on the main thread: the
\* lock is taken, the flag is tested and set and every stop event is set. If
\* the flag was set the call returns at once. The only trigger that can arrive
\* while the main thread is inside cleanup_resources is a signal: its handler
\* runs on top of the interrupted call and waits for cleanup_lock, a
\* threading.Lock (line 46), which the interrupted call holds
cleanup_resources(trigger) ==
    /\ ~exiting
    /\ trigger # "signal" => run = None /\ cleanup = <<>>
    /\ IF cleanup # <<>>
       THEN /\ Len(cleanup) = 1
            /\ cleanup' = Append(cleanup, trigger)
            /\ UNCHANGED <<shutdown_in_progress, test_stop_events, exiting>>
       ELSE IF shutdown_in_progress
       THEN /\ exiting' = (trigger # "shutdown_event")
            /\ UNCHANGED <<shutdown_in_progress, test_stop_events, cleanup>>
       ELSE /\ shutdown_in_progress' = TRUE
            /\ test_stop_events' = [id \in DOMAIN test_stop_events |-> TRUE]
            /\ cleanup' = <<trigger>>
            /\ UNCHANGED exiting
    /\ wresp' = NoModuleResponse
    /\ UNCHANGED <<active_tests, module_results, active_sessions, active_sockets,
                   active_executors, opened, closed, background, run, units, metrics,
                   expired>>

\* cleanup_resources lines 187-211: the registered sessions, sockets and pools
\* are closed and the lock is released; signal_handler goes on to sys.exit(0),
\* atexit ends the interpreter, on_shutdown returns to the event loop
CleanupSweep ==
    /\ Len(cleanup) = 1
    /\ closed' = closed \cup active_sessions \cup active_sockets \cup active_executors
    /\ cleanup' = <<>>
    /\ exiting' = (Head(cleanup) # "shutdown_event")
    /\ wresp' = NoModuleResponse
    /\ UNCHANGED <<active_tests, module_results, test_stop_events, shutdown_in_progress,
                   active_sessions, active_sockets, active_executors, opened,
                   background, run, units, metrics, expired>>

----------------------------------------------------------------------------
(* The worker process as a whole *)

WorkerInit ==
    /\ active_tests = <<>>
    /\ module_results = <<>>
    /\ test_stop_events = <<>>
    /\ shutdown_in_progress = FALSE
    /\ active_sessions = {}
    /\ active_sockets = {}
    /\ active_executors = {}
    /\ opened = {}
    /\ closed = {}
    /\ background = {}
    /\ run = None
    /\ units = <<>>
    /\ metrics = <<>>
    /\ expired = FALSE
    /\ exiting = FALSE
    /\ cleanup = <<>>
    /\ wresp = NoModuleResponse

WorkerNext ==
    \/ \E p \in ModuleParams : execute_test(p) /\ UNCHANGED <<vars, pvars, gvars>>
    \/ \E test_id \in ModuleIds : stop_test(test_id) /\ UNCHANGED <<vars, pvars, gvars>>
    \/ \E test_id \in ModuleIds : get_test_status(test_id) /\ UNCHANGED <<vars, pvars, gvars>>
    \/ \E test_id \in ModuleIds : RunBegin(test_id) /\ UNCHANGED <<vars, pvars, gvars>>
    \/ RunSubmit /\ UNCHANGED <<vars, pvars, gvars>>
    \/ WaitTimeout /\ UNCHANGED <<vars, pvars, gvars>>
    \/ RunEnd /\ UNCHANGED <<vars, pvars, gvars>>
    \/ RunAbort /\ UNCHANGED <<vars, pvars, gvars>>
    \/ TimePasses /\ UNCHANGED <<vars, pvars, gvars>>
    \/ \E u \in DOMAIN units : HttpCreateSession(u) /\ UNCHANGED <<vars, pvars, gvars>>
    \/ \E u \in DOMAIN units : UnitRegister(u) /\ UNCHANGED <<vars, pvars, gvars>>
    \/ \E u \in DOMAIN units, outcome \in {"response", "server_error", "exception"} :
          HttpRequest(u, outcome) /\ UNCHANGED <<vars, pvars, gvars>>
    \/ \E u \in DOMAIN units : HttpExit(u) /\ UNCHANGED <<vars, pvars, gvars>>
    \/ \E u \in DOMAIN units : SlowLorisOpen(u) /\ UNCHANGED <<vars, pvars, gvars>>
    \/ \E u \in DOMAIN units, outcome \in {"connected", "exception"} :
          SlowLorisConnect(u, outcome) /\ UNCHANGED <<vars, pvars, gvars>>
    \/ \E u \in DOMAIN units : SlowLorisKeepAlive(u) /\ UNCHANGED <<vars, pvars, gvars>>
    \/ \E u \in DOMAIN units, s \in opened : SlowLorisKeepAliveSend(u, s) /\ UNCHANGED <<vars, pvars, gvars>>
    \/ \E u \in DOMAIN units, s \in opened : SlowLorisKeepAliveError(u, s) /\ UNCHANGED <<vars, pvars, gvars>>
    \/ \E u \in DOMAIN units : SlowLorisKeepAliveEnd(u) /\ UNCHANGED <<vars, pvars, gvars>>
    \/ \E u \in DOMAIN units : SlowLorisExit(u) /\ UNCHANGED <<vars, pvars, gvars>>
    \/ \E trigger \in CleanupTriggers : cleanup_resources(trigger) /\ UNCHANGED <<vars, pvars, gvars>>
    \/ CleanupSweep /\ UNCHANGED <<vars, pvars, gvars>>

----------------------------------------------------------------------------
(* The proxy service: the pool, refresh_proxies, validate_proxies, GET /proxies *)

\* class ProxyType(int, Enum)
ProxyType == {1, 4, 5}

\* Proxy(host, port, type, is_valid): is_valid is Optional[bool]
Proxy(host, port, type, is_valid) ==
    [host |-> host, port |-> port, type |-> type, is_valid |-> is_valid]

\* Proxy.__hash__ / Proxy.__eq__: a proxy's identity
ProxyKey(p) == <<p.host, p.port, p.type>>

\* The proxies the sources can list: one HTTP proxy and one SOCKS4 proxy
ProxyIdentities == {<<"10.0.0.1", 8080, 1>>, <<"10.0.0.2", 1080, 4>>}

\* download_proxies_from_source: every downloaded Proxy has is_valid = None
Downloadable == {Proxy(k[1], k[2], k[3], None) : k \in ProxyIdentities}

\* Python's set.add, set.discard and set.update on a set of Proxy: equality is
\* identity, and an element equal to one already present is not stored
SetAdd(s, p) == IF \E q \in s : ProxyKey(q) = ProxyKey(p) THEN s ELSE s \cup {p}
SetDiscard(s, p) == {q \in s : ProxyKey(q) # ProxyKey(p)}

\* Variant: update stores a downloaded proxy next to an equal one
SetUpdateKeepsBoth(s, new) == s \cup new

SetUpdate(s, new) == s \cup {p \in new : \A q \in s : ProxyKey(q) # ProxyKey(p)}

\* `if p.is_valid`: None and False are falsy
Truthy(v) == v = Some(TRUE)

Min(a, b) == IF a < b THEN a ELSE b

\* list(s)[:count]: the first count elements in the set's iteration order
FirstOf(s, count) == {t \in SUBSET s : Cardinality(t) = Min(count, Cardinality(s))}

\* A proxy response: the handler, its query parameters, the status code and body
ProxyResponse(op, type, count, valid_only, code, body) ==
    [op |-> op, type |-> type, count |-> count, valid_only |-> valid_only,
     code |-> code, body |-> body]

NoProxyResponse == ProxyResponse("none", None, 0, FALSE, 0, {})

\* Coroutines: refresh_proxies suspended in gather (startup: the one of
\* startup_event, which goes on to validate_proxies), and validate_proxies, first
\* created and then suspended in gather with its proxies_to_validate
RefreshTask(startup) ==
    [kind |-> "refresh", pc |-> "gather", startup |-> startup, proxy_type |-> None,
     count |-> 0, proxies_to_validate |-> {}]
ValidateTask(proxy_type, count) ==
    [kind |-> "validate", pc |-> "created", startup |-> FALSE, proxy_type |-> proxy_type,
     count |-> count, proxies_to_validate |-> {}]

\* validate_proxies lines 337-344: proxies_to_validate, one choice per order
ProxiesToValidate(proxy_type, count) ==
    IF proxy_type = None
    THEN {t1 \cup t4 \cup t5 : t1 \in FirstOf(proxies[1], count),
                               t4 \in FirstOf(proxies[4], count),
                               t5 \in FirstOf(proxies[5], count)}
    ELSE FirstOf(proxies[Head(proxy_type)], count)

\* validate_proxies begins: the coroutine runs up to its gather
ValidateBegin(task, chosen) ==
    /\ BagIn(task, proxy_tasks)
    /\ task.kind = "validate" /\ task.pc = "created"
    /\ chosen \in ProxiesToValidate(task.proxy_type, task.count)
    /\ proxy_tasks' = (proxy_tasks (-) SetToBag({task}))
                      (+) SetToBag({[task EXCEPT !.pc = "gather",
                                                 !.proxies_to_validate = chosen]})
    /\ presp' = NoProxyResponse
    /\ UNCHANGED <<proxies, last_proxy_refresh>>

\* validate_proxies line 358: a validated proxy is added back only if valid
StoredAfterValidation(p) == Truthy(p.is_valid)

\* validate_proxies lines 351-362 for the validated proxies in the order given
RECURSIVE ApplyValidation(_, _)
ApplyValidation(pool, validated) ==
    IF validated = <<>> THEN pool
    ELSE LET proxy == Head(validated)
             discarded == [pool EXCEPT ![proxy.type] = SetDiscard(@, proxy)]
         IN ApplyValidation(IF StoredAfterValidation(proxy)
                            THEN [discarded EXCEPT ![proxy.type] = SetAdd(@, proxy)]
                            ELSE discarded,
                            Tail(validated))

\* A set as a list, in some order (the proxies of a run have distinct identities,
\* so the order does not change the result)
RECURSIVE AsList(_)
AsList(s) == IF s = {} THEN <<>>
             ELSE LET p == CHOOSE x \in s : TRUE IN <<p>> \o AsList(s \ {p})

\* validate_proxy: a new Proxy with the verdict
Validated(p, verdict) == Proxy(p.host, p.port, p.type, Some(verdict))

\* validate_proxies lines 346-365: gather returns, the pool is updated
ValidateReturn(task, valid) ==
    /\ BagIn(task, proxy_tasks)
    /\ task.kind = "validate" /\ task.pc = "gather"
    /\ valid \subseteq task.proxies_to_validate
    /\ proxies' = ApplyValidation(proxies,
                      AsList({Validated(p, p \in valid) : p \in task.proxies_to_validate}))
    /\ proxy_tasks' = proxy_tasks (-) SetToBag({task})
    /\ presp' = NoProxyResponse
    /\ UNCHANGED last_proxy_refresh

\* refresh_proxies lines 191-206: gather returns with the downloaded proxies; in
\* startup_event validate_proxies() follows without a suspension in between
RefreshReturn(task, downloaded, chosen) ==
    /\ BagIn(task, proxy_tasks)
    /\ task.kind = "refresh"
    /\ proxies' = [proxy_type \in ProxyType |->
                      SetUpdate(proxies[proxy_type],
                                {p \in downloaded : p.type = proxy_type})]
    /\ last_proxy_refresh' = "fresh"
    /\ IF task.startup
       THEN /\ chosen \in {t1 \cup t4 \cup t5 : t1 \in FirstOf(proxies'[1], 100),
                                                t4 \in FirstOf(proxies'[4], 100),
                                                t5 \in FirstOf(proxies'[5], 100)}
            /\ proxy_tasks' = (proxy_tasks (-) SetToBag({task}))
                              (+) SetToBag({[ValidateTask(None, 100) EXCEPT
                                                !.pc = "gather",
                                                !.proxies_to_validate = chosen]})
       ELSE /\ chosen = {}
            /\ proxy_tasks' = proxy_tasks (-) SetToBag({task})
    /\ presp' = NoProxyResponse

\* PROXY_REFRESH_INTERVAL passes since the last refresh
RefreshIntervalPasses ==
    /\ last_proxy_refresh = "fresh"
    /\ last_proxy_refresh' = "stale"
    /\ presp' = NoProxyResponse
    /\ UNCHANGED <<proxies, proxy_tasks>>

\* Variant: valid_only drops only the proxies found invalid
ValidOnlyFilterKeepsUnvalidated(proxy_list) == {p \in proxy_list : p.is_valid # Some(FALSE)}

\* get_proxies lines 408 and 422: [p for p in proxy_list if p.is_valid]
ValidOnlyFilter(proxy_list) == {p \in proxy_list : Truthy(p.is_valid)}

\* get_proxies lines 401-416: a type that is given and is not 1, 4 or 5 is refused
ProxyTypeRefused(type) == type # None /\ Head(type) \notin {1, 4, 5}

\* get_proxies lines 401-423: the result before truncation, one list per type in
\* the order of the dict
ProxyResult(type, valid_only) ==
    LET listOf(proxy_type) == IF valid_only THEN ValidOnlyFilter(proxies[proxy_type])
                              ELSE proxies[proxy_type]
    IN IF type = None
       THEN <<listOf(1), listOf(4), listOf(5)>>
       ELSE <<listOf(Head(type))>>

\* result[:count]: the lists are concatenated, so a later list contributes only
\* when the earlier ones are taken whole
RECURSIVE Truncated(_, _)
Truncated(lists, count) ==
    IF lists = <<>> THEN {{}}
    ELSE IF Cardinality(Head(lists)) >= count
    THEN FirstOf(Head(lists), count)
    ELSE {Head(lists) \cup t : t \in Truncated(Tail(lists), count - Cardinality(Head(lists)))}

\* The coroutines a handler creates fit the bound on coroutines
ProxyTasksAfter(new) == proxy_tasks (+) new

\* GET /proxies
GetProxies(type, count, valid_only, body) ==
    LET refresh == IF last_proxy_refresh = "stale"
                   THEN SetToBag({RefreshTask(FALSE)}) ELSE EmptyBag
    IN IF ProxyTypeRefused(type)
       THEN /\ body = {}
            /\ BagCardinality(ProxyTasksAfter(refresh)) <= MaxProxyTasks
            /\ proxy_tasks' = ProxyTasksAfter(refresh)
            /\ presp' = ProxyResponse("get_proxies", type, count, valid_only, 400, {})
            /\ UNCHANGED <<proxies, last_proxy_refresh>>
       ELSE LET validate == IF 2 * Cardinality(body) < count
                            THEN SetToBag({ValidateTask(type, 100)}) ELSE EmptyBag
            IN /\ body \in Truncated(ProxyResult(type, valid_only), count)
               /\ BagCardinality(ProxyTasksAfter(refresh (+) validate)) <= MaxProxyTasks
               /\ proxy_tasks' = ProxyTasksAfter(refresh (+) validate)
               /\ presp' = ProxyResponse("get_proxies", type, count, valid_only, 200, body)
               /\ UNCHANGED <<proxies, last_proxy_refresh>>

\* POST /refresh
RefreshProxyList ==
    /\ BagCardinality(proxy_tasks) < MaxProxyTasks
    /\ proxy_tasks' = proxy_tasks (+) SetToBag({RefreshTask(FALSE)})
    /\ presp' = ProxyResponse("refresh_proxy_list", None, 0, FALSE, 200, {})
    /\ UNCHANGED <<proxies, last_proxy_refresh>>

\* POST /validate
ValidateProxyList(type, count) ==
    IF ProxyTypeRefused(type)
    THEN /\ presp' = ProxyResponse("validate_proxy_list", type, count, FALSE, 400, {})
         /\ UNCHANGED <<proxies, proxy_tasks, last_proxy_refresh>>
    ELSE /\ BagCardinality(proxy_tasks) < MaxProxyTasks
         /\ proxy_tasks' = proxy_tasks (+) SetToBag({ValidateTask(type, count)})
         /\ presp' = ProxyResponse("validate_proxy_list", type, count, FALSE, 200, {})
         /\ UNCHANGED <<proxies, last_proxy_refresh>>

\* The query parameters of the model
ProxyTypeParams == {None} \cup {Some(n) : n \in {0, 1, 2, 4, 5}}
ProxyCounts == {1, 100}

\* on_startup: startup_event is created, suspended in its refresh
ProxyInit ==
    /\ proxies = [proxy_type \in ProxyType |-> {}]
    /\ proxy_tasks = SetToBag({RefreshTask(TRUE)})
    /\ last_proxy_refresh = "stale"
    /\ presp = NoProxyResponse

ProxyNext ==
    \/ \E type \in ProxyTypeParams, count \in ProxyCounts, valid_only \in BOOLEAN,
          body \in SUBSET UNION {proxies[t] : t \in ProxyType} :
          GetProxies(type, count, valid_only, body) /\ UNCHANGED <<vars, wvars, gvars>>
    \/ RefreshProxyList /\ UNCHANGED <<vars, wvars, gvars>>
    \/ \E type \in ProxyTypeParams, count \in ProxyCounts :
          ValidateProxyList(type, count) /\ UNCHANGED <<vars, wvars, gvars>>
    \/ \E task \in BagToSet(proxy_tasks), chosen \in SUBSET UNION {proxies[t] : t \in ProxyType} :
          ValidateBegin(task, chosen) /\ UNCHANGED <<vars, wvars, gvars>>
    \/ \E task \in BagToSet(proxy_tasks) : \E valid \in SUBSET task.proxies_to_validate :
          ValidateReturn(task, valid) /\ UNCHANGED <<vars, wvars, gvars>>
    \/ \E task \in BagToSet(proxy_tasks), downloaded \in SUBSET Downloadable,
          chosen \in SUBSET (Downloadable \cup UNION {proxies[t] : t \in ProxyType}) :
          RefreshReturn(task, downloaded, chosen) /\ UNCHANGED <<vars, wvars, gvars>>
    \/ RefreshIntervalPasses /\ UNCHANGED <<vars, wvars, gvars>>

----------------------------------------------------------------------------
(* Specification *)

\* The ids a caller may name: every id that can be minted, and one that cannot
TestIds == 1 .. MaxTests + 1

Init ==
    /\ tests = <<>>
    /\ test_results = <<>>
    /\ exec = <<>>
    /\ stops = EmptyBag
    /\ fleet = <<>>
    /\ now = 0
    /\ resp = NoResponse
    /\ WorkerInit
    /\ ProxyInit
    /\ gresp = NoGatewayResponse
    /\ gcalls = <<>>

Next ==
    \/ \E user \in Callers, r \in Requests : CreateTest(user, r) /\ UNCHANGED <<wvars, pvars, gvars>>
    \/ \E i \in 1 .. MaxTests : ExecStart(i) /\ UNCHANGED <<wvars, pvars, gvars>>
    \/ \E i \in 1 .. MaxTests, answer \in ProxyAnswers : ProxiesReturn(i, answer) /\ UNCHANGED <<wvars, pvars, gvars>>
    \/ \E i \in 1 .. MaxTests, answer \in StartAnswers : StartReturn(i, answer) /\ UNCHANGED <<wvars, pvars, gvars>>
    \/ \E i \in 1 .. MaxTests, answer \in PollAnswers : PollReturn(i, answer) /\ UNCHANGED <<wvars, pvars, gvars>>
    \/ \E i \in 1 .. MaxTests : SleepReturn(i) /\ UNCHANGED <<wvars, pvars, gvars>>
    \/ \E i \in 1 .. MaxTests, answer \in DeleteAnswers : DeadlineDeleteReturn(i, answer) /\ UNCHANGED <<wvars, pvars, gvars>>
    \/ \E user \in Callers, test_id \in TestIds : StopTest(user, test_id) /\ UNCHANGED <<wvars, pvars, gvars>>
    \/ \E h \in BagToSet(stops), answer \in DeleteAnswers : StopDeleteReturn(h, answer) /\ UNCHANGED <<wvars, pvars, gvars>>
    \/ \E user \in Callers, test_id \in TestIds : GetTest(user, test_id) /\ UNCHANGED <<wvars, pvars, gvars>>
    \/ \E user \in Callers : GetTests(user) /\ UNCHANGED <<wvars, pvars, gvars>>
    \/ \E user \in Callers, test_id \in TestIds : GetTestResults(user, test_id) /\ UNCHANGED <<wvars, pvars, gvars>>
    \/ \E id \in DOMAIN fleet, outcome \in {"ok", "exception"} : FleetFinish(id, outcome) /\ UNCHANGED <<wvars, pvars, gvars>>
    \/ \E d \in TimeSteps : Tick(d) /\ UNCHANGED <<wvars, pvars, gvars>>

Spec == Init /\ [][Next]_vars

\* The orchestrator with a fleet that other clients stop tests on as well
OpenFleetNext ==
    \/ Next
    \/ \E id \in DOMAIN fleet : FleetStop(id) /\ UNCHANGED <<wvars, pvars, gvars>>

OpenFleetSpec == Init /\ [][OpenFleetNext]_vars

\* A step of the execute_test coroutine of test i: the coroutine is scheduled when
\* it can run, and each call it awaits returns or times out
ExecStep(i) ==
    \/ ExecStart(i)
    \/ \E answer \in ProxyAnswers : ProxiesReturn(i, answer)
    \/ \E answer \in StartAnswers : StartReturn(i, answer)
    \/ \E answer \in PollAnswers : PollReturn(i, answer)
    \/ SleepReturn(i)
    \/ \E answer \in DeleteAnswers : DeadlineDeleteReturn(i, answer)

\* The steps that write the registry: create_test, the executors, stop_test, the
\* fleet and the clock (the read-only handlers change no test)
LiveNext ==
    \/ \E user \in Users, r \in Requests : CreateTest(user, r) /\ UNCHANGED <<wvars, pvars, gvars>>
    \/ \E i \in 1 .. MaxTests : ExecStep(i) /\ UNCHANGED <<wvars, pvars, gvars>>
    \/ \E user \in Users, test_id \in TestIds : StopTest(user, test_id) /\ UNCHANGED <<wvars, pvars, gvars>>
    \/ \E h \in BagToSet(stops), answer \in DeleteAnswers : StopDeleteReturn(h, answer) /\ UNCHANGED <<wvars, pvars, gvars>>
    \/ \E id \in DOMAIN fleet, outcome \in {"ok", "exception"} : FleetFinish(id, outcome) /\ UNCHANGED <<wvars, pvars, gvars>>
    \/ \E d \in TimeSteps : Tick(d) /\ UNCHANGED <<wvars, pvars, gvars>>

\* The program where executors keep running and time advances
LiveSpec ==
    /\ Init /\ [][LiveNext]_vars
    /\ \A i \in 1 .. MaxTests : WF_vars(ExecStep(i) /\ UNCHANGED <<wvars, pvars, gvars>>)
    /\ WF_vars((\E d \in TimeSteps : Tick(d)) /\ UNCHANGED <<wvars, pvars, gvars>>)

\* The worker process on its own
WorkerSpec == Init /\ [][WorkerNext]_wvars

\* The proxy service on its own
ProxySpec == Init /\ [][ProxyNext]_pvars

----------------------------------------------------------------------------
(* The gateway: handlers that forward a client's request to the orchestrator *)

\* get_current_active_user: TRUE when the token names an active user
get_current_active_user(user) == user \in Users

\* `return response.json()`: the orchestrator's body goes out with status 200
\* whatever status the orchestrator answered with
ReturnJson(r) == GatewayResponse(r.op, r.user, r.arg, 200, r.body, r.code)

\* get_test, stop_test, get_test_results: 404 is raised again, any other answer
\* is returned with response.json()
ReturnJsonUnless404(r) ==
    IF r.code = 404 THEN GatewayResponse(r.op, r.user, r.arg, 404, NoBody, r.code)
    ELSE ReturnJson(r)

\* The gateway answers without the orchestrator: 401 from the token check, 400
\* from its own validation, 503 when make_request raises httpx.RequestError
GatewayOnly(op, user, arg, code) ==
    /\ gresp' = GatewayResponse(op, user, arg, code, NoBody, 0)
    /\ resp' = NoResponse
    /\ UNCHANGED <<tests, test_results, exec, stops, fleet, now>>

\* POST /api/test (lines 202-233), with make_request as one step: its first
\* attempt is answered, or none reaches the orchestrator (RetrySpec follows the
\* attempts one by one)
GatewayCreateTest(user, r, reached) ==
    IF ~get_current_active_user(user) THEN GatewayOnly("create_test", user, r, 401)
    ELSE IF r.duration > MaxDuration THEN GatewayOnly("create_test", user, r, 400)
    ELSE IF ~reached THEN GatewayOnly("create_test", user, r, 503)
    ELSE /\ CreateTest(user, r)
         /\ gresp' = ReturnJson(resp')

\* GET /api/tests (lines 236-253)
GatewayGetTests(user, reached) ==
    IF ~get_current_active_user(user) THEN GatewayOnly("get_tests", user, 0, 401)
    ELSE IF ~reached THEN GatewayOnly("get_tests", user, 0, 503)
    ELSE /\ GetTests(user)
         /\ gresp' = ReturnJson(resp')

\* GET /api/test/{test_id} (lines 256-281)
GatewayGetTest(user, test_id, reached) ==
    IF ~get_current_active_user(user) THEN GatewayOnly("get_test", user, test_id, 401)
    ELSE IF ~reached THEN GatewayOnly("get_test", user, test_id, 503)
    ELSE /\ GetTest(user, test_id)
         /\ gresp' = ReturnJsonUnless404(resp')

\* GET /api/test/{test_id}/results (lines 319-344)
GatewayGetTestResults(user, test_id, reached) ==
    IF ~get_current_active_user(user)
    THEN GatewayOnly("get_test_results", user, test_id, 401)
    ELSE IF ~reached THEN GatewayOnly("get_test_results", user, test_id, 503)
    ELSE /\ GetTestResults(user, test_id)
         /\ gresp' = ReturnJsonUnless404(resp')

\* DELETE /api/test/{test_id} (lines 284-316): the request is forwarded; the
\* orchestrator answers at once, or after its own DELETE to the fleet
GatewayStopTest(user, test_id, reached) ==
    IF ~get_current_active_user(user) THEN GatewayOnly("stop_test", user, test_id, 401)
    ELSE IF ~reached THEN GatewayOnly("stop_test", user, test_id, 503)
    ELSE /\ StopTest(user, test_id)
         /\ gresp' = IF resp' = NoResponse THEN NoGatewayResponse
                     ELSE ReturnJsonUnless404(resp')

\* The orchestrator's stop_test answers after its DELETE
GatewayStopReturn(h, answer) ==
    /\ StopDeleteReturn(h, answer)
    /\ gresp' = ReturnJsonUnless404(resp')

\* The requests a client posts: a good one, one with a method the orchestrator
\* does not know, and one longer than the gateway allows
GatewayRequests ==
    {BaseRequest, [BaseRequest EXCEPT !.method = "BOGUS_FLOOD"],
     [BaseRequest EXCEPT !.duration = MaxDuration + 1]}

\* A step of the orchestrator or of the fleet behind the gateway
Behind(step) == step /\ gresp' = NoGatewayResponse

GatewayNext ==
    \/ \E user \in Callers, r \in GatewayRequests, reached \in BOOLEAN :
          GatewayCreateTest(user, r, reached) /\ UNCHANGED <<wvars, pvars, gcalls>>
    \/ \E user \in Callers, reached \in BOOLEAN :
          GatewayGetTests(user, reached) /\ UNCHANGED <<wvars, pvars, gcalls>>
    \/ \E user \in Callers, test_id \in TestIds, reached \in BOOLEAN :
          GatewayGetTest(user, test_id, reached) /\ UNCHANGED <<wvars, pvars, gcalls>>
    \/ \E user \in Callers, test_id \in TestIds, reached \in BOOLEAN :
          GatewayGetTestResults(user, test_id, reached) /\ UNCHANGED <<wvars, pvars, gcalls>>
    \/ \E user \in Callers, test_id \in TestIds, reached \in BOOLEAN :
          GatewayStopTest(user, test_id, reached) /\ UNCHANGED <<wvars, pvars, gcalls>>
    \/ \E h \in BagToSet(stops), answer \in DeleteAnswers :
          GatewayStopReturn(h, answer) /\ UNCHANGED <<wvars, pvars, gcalls>>
    \/ \E i \in 1 .. MaxTests : Behind(ExecStep(i)) /\ UNCHANGED <<wvars, pvars, gcalls>>
    \/ \E id \in DOMAIN fleet, outcome \in {"ok", "exception"} :
          Behind(FleetFinish(id, outcome)) /\ UNCHANGED <<wvars, pvars, gcalls>>
    \/ \E d \in TimeSteps : Behind(Tick(d)) /\ UNCHANGED <<wvars, pvars, gcalls>>

\* The gateway in front of the orchestrator
GatewaySpec == Init /\ [][GatewayNext]_<<vars, gvars>>

----------------------------------------------------------------------------
(* POST /api/test attempt by attempt: make_request and its retries *)

\* make_request line 156: max_retries = 3
max_retries == 3

\* What an attempt of make_request meets: the orchestrator answers; the request
\* does not reach it (httpx.ConnectError); or it is processed but the answer does
\* not arrive within the timeout (httpx.ReadTimeout). Both errors are
\* httpx.RequestError
AttemptOutcomes == {"answered", "unreachable", "timeout"}

\* create_test lines 202-226: the checks of the gateway, then make_request
\* begins
GatewayPost(user, r) ==
    IF ~get_current_active_user(user)
    THEN GatewayOnly("create_test", user, r, 401) /\ UNCHANGED gcalls
    ELSE IF r.duration > MaxDuration
    THEN GatewayOnly("create_test", user, r, 400) /\ UNCHANGED gcalls
    ELSE /\ Len(gcalls) < MaxCalls
         /\ gcalls' = Append(gcalls, [user |-> user, r |-> r, attempt |-> 0,
                                      pc |-> "calling"])
         /\ gresp' = NoGatewayResponse
         /\ resp' = NoResponse
         /\ UNCHANGED <<tests, test_results, exec, stops, fleet, now>>

\* make_request lines 159-177: one pass of `for attempt in range(max_retries)`.
\* An answer is returned to create_test, which returns response.json() (line
\* 227); httpx.RequestError is retried, and raised from the last attempt, which
\* create_test turns into 503 (lines 228-233)
GatewayAttempt(k, outcome) ==
    /\ k \in DOMAIN gcalls /\ gcalls[k].pc = "calling"
    /\ LET call == gcalls[k]
           last == call.attempt = max_retries - 1
       IN /\ IF outcome = "unreachable"
             THEN resp' = NoResponse
                  /\ UNCHANGED <<tests, test_results, exec, stops, fleet, now>>
             ELSE CreateTestWithin(call.user, call.r, MaxCalls * max_retries)
          /\ gcalls' = [gcalls EXCEPT
                          ![k].attempt = @ + 1,
                          ![k].pc = IF outcome = "answered" \/ last
                                    THEN "returned" ELSE "calling"]
          /\ gresp' = IF outcome = "answered" THEN ReturnJson(resp')
                      ELSE IF last
                      THEN GatewayResponse("create_test", call.user, call.r, 503, NoBody, 0)
                      ELSE NoGatewayResponse

\* One client's POST /api/test with the retries of make_request, and the
\* executors of the tests it creates up to the start of the remote job
RetryNext ==
    \/ \E user \in Callers, r \in GatewayRequests :
          GatewayPost(user, r) /\ UNCHANGED <<wvars, pvars>>
    \/ \E k \in DOMAIN gcalls, outcome \in AttemptOutcomes :
          GatewayAttempt(k, outcome) /\ UNCHANGED <<wvars, pvars>>
    \/ \E i \in DOMAIN exec : Behind(ExecStart(i)) /\ UNCHANGED <<wvars, pvars, gcalls>>
    \/ \E i \in DOMAIN exec, answer \in StartAnswers :
          Behind(StartReturn(i, answer)) /\ UNCHANGED <<wvars, pvars, gcalls>>

RetrySpec == Init /\ [][RetryNext]_<<vars, gvars>>

----------------------------------------------------------------------------
(* Properties of the orchestrator *)

\* The module test id the executor of test i holds, None before POST /execute
\* has answered
ExecModuleTestId(i) == exec[i].module_test_id

\* C1: once a test's status is COMPLETED or FAILED it never changes again, also
\* when a stop_test that read RUNNING is suspended in its DELETE meanwhile.
C1_TerminalAbsorbing ==
    [][\A i \in DOMAIN tests :
          tests[i].status \in {COMPLETED, FAILED} => tests'[i].status = tests[i].status]_vars

\* C2: once stop_test has marked a test STOPPED, no later step of the executor
\* changes the status away from STOPPED.
C2_StoppedIsFinal ==
    [][\A i \in DOMAIN tests :
          tests[i].status = STOPPED => tests'[i].status = STOPPED]_vars

\* C3: a stop_test that sends its DELETE when the executor already holds a module
\* test id names that module test id in DELETE /execute/{id}.
C3_DeleteNamesModuleTestId ==
    [][\A h \in BagToSet(stops') :
          (CopiesIn(h, stops') > CopiesIn(h, stops) /\ ExecModuleTestId(h.test_id) # None)
              => h.module_test_id = Head(ExecModuleTestId(h.test_id))]_vars

\* What stop_test leaves behind for a test that was RUNNING when it was called
StoppedAndAnswered(i) ==
    /\ tests'[i].status = STOPPED
    /\ Has(tests'[i], "end_time")
    /\ resp' = Response("stop_test", tests[i].user, i, 200, TestResponse(i, tests'[i]))
    /\ resp'.body.status = STOPPED
    /\ Has(resp'.body, "end_time")

\* C4: stop_test on a test that was RUNNING when the call was made ends with the
\* test STOPPED and end_time set, whatever the downstream DELETE does: when the
\* suspended handler resumes (its DELETE answered or failed), and when the fleet
\* cannot be resolved.
C4_StopRecordsStopped ==
    [][/\ \A h \in BagToSet(stops) :
            CopiesIn(h, stops') < CopiesIn(h, stops) => StoppedAndAnswered(h.test_id)
       /\ \A i \in DOMAIN tests :
            (/\ tests[i].status = RUNNING
             /\ stops' = stops
             /\ resp'.op = "stop_test" /\ resp'.code = 200 /\ resp'.arg = i)
                => StoppedAndAnswered(i)]_vars

\* C4 witness: stop_test has answered with a STOPPED record although its DELETE
\* did not stop the worker-side test, which is still running.
C4_Witness ==
    /\ resp.op = "stop_test" /\ resp.code = 200
    /\ resp.body.status = STOPPED /\ Has(resp.body, "end_time")
    /\ tests[resp.arg].status = STOPPED
    /\ ExecModuleTestId(resp.arg) # None
    /\ fleet[Head(ExecModuleTestId(resp.arg))].status = "running"

C6_TerminalHasEndTime ==
    \A i \in DOMAIN tests :
        tests[i].status \in TerminalStatus
            => /\ Has(tests[i], "end_time")
               /\ Has(tests[i], "start_time")
               /\ tests[i].end_time >= tests[i].start_time

\* C6 witness: a test FAILED by the executor's exception handler some time after
\* it started.
C6_Witness ==
    \E i \in DOMAIN tests :
        /\ tests[i].status = FAILED
        /\ i \in DOMAIN test_results /\ Has(test_results[i], "error")
        /\ Has(tests[i], "end_time") /\ Has(tests[i], "start_time")
        /\ tests[i].end_time > tests[i].start_time

\* C7: once a test's status is terminal, the result get_test_results returns for
\* it never changes.
C7_ResultsImmutable ==
    [][\A i \in DOMAIN tests :
          tests[i].status \in TerminalStatus => ResultsBody(i)' = ResultsBody(i)]_vars

\* The tests get_tests must return to a user: those whose user field is the caller
OwnTests(user) == {i \in DOMAIN tests : tests[i].user = user}

\* C8: for a caller other than the owner, get_test, stop_test and get_test_results
\* answer 403 and change nothing (404 for an unknown id); get_tests answers with
\* exactly the caller's tests; the user field of a test never changes.
C8_OwnerOnly ==
    [][/\ (resp'.op \in {"get_test", "stop_test", "get_test_results"} \/ stops' # stops) =>
            \A user \in Users, test_id \in TestIds :
               (/\ test_id \notin DOMAIN tests \/ tests[test_id].user # user
                /\ \/ GetTest(user, test_id)
                   \/ StopTest(user, test_id)
                   \/ GetTestResults(user, test_id))
                   => /\ resp'.code = IF test_id \in DOMAIN tests THEN 403 ELSE 404
                      /\ UNCHANGED <<tests, test_results, exec, stops, fleet>>
       /\ resp'.op = "get_tests" =>
            \A user \in Users :
               GetTests(user)
                   => /\ resp'.code = 200
                      /\ Len(resp'.body) = Cardinality(OwnTests(user))
                      /\ {resp'.body[k] : k \in DOMAIN resp'.body}
                             = {TestResponse(i, tests[i]) : i \in OwnTests(user)}
       /\ \A i \in DOMAIN tests :
            i \in DOMAIN tests' /\ tests'[i].user = tests[i].user]_vars

\* C8 witness: a user who does not own a RUNNING test asked to stop it, got 403,
\* and the test is still RUNNING with no DELETE in flight.
C8_Witness ==
    /\ resp.op = "stop_test" /\ resp.code = 403
    /\ resp.arg \in DOMAIN tests
    /\ tests[resp.arg].user # resp.user
    /\ tests[resp.arg].status = RUNNING
    /\ stops = EmptyBag

\* C9: create_test with a method that is not in the catalog answers 400, adds no
\* record (get_tests is unchanged for every user) and spawns no executor.
C9_UnknownMethodRejected ==
    [][resp'.op = "create_test" =>
         \A user \in Users, r \in Requests :
            (/\ r.method \notin DOMAIN AVAILABLE_METHODS
             /\ TestRequestValid(r)
             /\ CreateTest(user, r))
                => /\ resp'.code = 400
                   /\ UNCHANGED <<tests, test_results, exec>>
                   /\ \A u \in Users : UserTests(u)' = UserTests(u)]_vars

\* C9 witness: a request naming BOGUS_FLOOD was answered 400.
C9_Witness ==
    /\ resp.op = "create_test" /\ resp.code = 400
    /\ resp.arg.method = "BOGUS_FLOOD"
    /\ resp.user \in Users

\* C10: every stored test has 1 <= duration <= 300 and 1 <= threads <= 1000.
C10_StoredWithinBounds ==
    \A i \in DOMAIN tests :
        /\ 1 <= tests[i].duration /\ tests[i].duration <= MaxDuration
        /\ 1 <= tests[i].threads /\ tests[i].threads <= MaxThreads

\* C11: a request whose target is malformed for its protocol (a tcp or udp
\* method and a target without a valid ':port') is rejected by create_test, so no
\* stored test has such a target and the error never shows up as a FAILED test.
C11_MalformedTargetNotStored ==
    \A i \in DOMAIN tests :
        (/\ tests[i].method \in DOMAIN AVAILABLE_METHODS
         /\ AVAILABLE_METHODS[tests[i].method] \in {"tcp", "udp"})
            => tcp_validate_target(tests[i].target)

\* C12: create_test stores the test QUEUED and answers QUEUED, with the executor
\* not yet started (no start_time); the step that marks a test RUNNING and sets
\* start_time is a later step of the executor, taken on a test that is already
\* stored and QUEUED.
C12_QueuedBeforeRunning ==
    [][/\ \A i \in DOMAIN tests' \ DOMAIN tests :
            /\ tests'[i].status = QUEUED
            /\ ~Has(tests'[i], "start_time")
            /\ exec'[i].pc = "queued"
            /\ resp'.op = "create_test" /\ resp'.code = 200
            /\ resp'.body.id = i /\ resp'.body.status = QUEUED
       /\ \A i \in DOMAIN tests' :
            (Has(tests'[i], "start_time") /\ (i \in DOMAIN tests => ~Has(tests[i], "start_time")))
                => /\ i \in DOMAIN tests
                   /\ tests[i].status = QUEUED
                   /\ exec[i].pc = "queued" /\ exec'[i].pc # "queued"
                   /\ resp'.op # "create_test"]_vars

\* C12 witness: create_test has just answered QUEUED for a stored QUEUED test
\* whose executor has not run.
C12_Witness ==
    /\ resp.op = "create_test" /\ resp.code = 200
    /\ resp.body.status = QUEUED
    /\ tests[resp.body.id].status = QUEUED
    /\ exec[resp.body.id].pc = "queued"

\* C13: every created test eventually has status COMPLETED, FAILED or STOPPED,
\* whatever the fleet and the proxy service answer, provided the executor keeps
\* being scheduled, its remote calls return or time out, and time advances.
C13_EventuallyTerminal ==
    \A i \in 1 .. MaxTests :
        (i \in DOMAIN tests) ~> (i \in DOMAIN tests /\ tests[i].status \in TerminalStatus)

\* C13 witness: a test COMPLETED by the deadline branch while the worker-side run
\* never finished and the deadline's DELETE did not reach it.
C13_Witness ==
    \E i \in DOMAIN tests :
        /\ tests[i].status = COMPLETED
        /\ i \in DOMAIN test_results /\ Has(test_results[i], "message")
        /\ ExecModuleTestId(i) # None
        /\ fleet[Head(ExecModuleTestId(i))].status = "running"
        /\ ~fleet[Head(ExecModuleTestId(i))].finished

----------------------------------------------------------------------------
(* Properties of the worker process *)

\* C14: once shutdown_in_progress is set, POST /execute is answered 503, no test
\* record and no stop event is created, no run spawns a new thread, and no test
\* becomes running.
C14_NoNewTestAfterShutdown ==
    [][shutdown_in_progress =>
          /\ wresp'.op = "execute_test" => wresp'.code = 503
          /\ DOMAIN active_tests' = DOMAIN active_tests
          /\ DOMAIN test_stop_events' \subseteq DOMAIN test_stop_events
          /\ DOMAIN units' = DOMAIN units
          /\ \A id \in DOMAIN active_tests :
                active_tests'[id].status = "running" => active_tests[id].status = "running"]_wvars

\* C14 witness: a POST /execute for a supported method with threads was answered
\* 503 during shutdown, and nothing was stored.
C14_Witness ==
    /\ shutdown_in_progress
    /\ wresp.op = "execute_test" /\ wresp.code = 503
    /\ wresp.arg.method \in TEST_METHODS /\ wresp.arg.threads > 0
    /\ active_tests = <<>> /\ test_stop_events = <<>>

\* C15: DELETE /execute/{id} answers 404 for an unknown id and 400 for a test
\* that is not running, changing nothing; for a running test it sets the test's
\* stop event, sets the status to stopped and sets end_time.
C15_ModuleStop ==
    [][\A test_id \in ModuleIds :
          stop_test(test_id) =>
             IF test_id \notin DOMAIN active_tests \/ active_tests[test_id].status # "running"
             THEN /\ wresp'.code = IF test_id \notin DOMAIN active_tests THEN 404 ELSE 400
                  /\ UNCHANGED <<active_tests, module_results, test_stop_events,
                                 shutdown_in_progress, active_sessions, active_sockets,
                                 active_executors, opened, closed, background, run, units,
                                 metrics, expired, exiting, cleanup>>
             ELSE /\ wresp'.code = 200
                  /\ test_id \in DOMAIN test_stop_events' /\ test_stop_events'[test_id]
                  /\ active_tests'[test_id].status = "stopped"
                  /\ Has(active_tests'[test_id], "end_time")]_wvars

\* C15 witness: a DELETE was answered 200 and left the test stopped with its stop
\* event set.
C15_Witness ==
    /\ wresp.op = "stop_test" /\ wresp.code = 200
    /\ active_tests[wresp.arg].status = "stopped"
    /\ Has(active_tests[wresp.arg], "end_time")
    /\ test_stop_events[wresp.arg]

\* C16: when a run finishes normally for a test that DELETE has marked stopped,
\* the status stays stopped, and the results and end_time are recorded.
C16_StoppedSurvivesCompletion ==
    [][\A id \in DOMAIN active_tests :
          (active_tests[id].status = "stopped" /\ RunEnd /\ Head(run).test_id = id)
              => /\ active_tests'[id].status = "stopped"
                 /\ Has(active_tests'[id], "end_time")
                 /\ id \in DOMAIN module_results'
                 /\ Has(module_results'[id], "metrics")]_wvars

\* C16 witness: a stopped test whose run has finished and left its results.
C16_Witness ==
    \E id \in DOMAIN active_tests :
        /\ active_tests[id].status = "stopped"
        /\ id \in DOMAIN module_results /\ Has(module_results[id], "metrics")
        /\ run = None /\ id \notin background

\* C17: while threads of a test are executing, the service handles a DELETE
\* /execute/{id} and a GET /status/{id} for it.
C17_HandledDuringRun ==
    \A u \in DOMAIN units :
        (units[u].pc # "exited" /\ ~exiting)
            => /\ ENABLED stop_test(units[u].test_id)
               /\ ENABLED get_test_status(units[u].test_id)

\* C18: for every test, requests_sent >= successful_requests + failed_requests - 1.
C18_SentCoversOutcomes ==
    \A id \in DOMAIN metrics :
        metrics[id].requests_sent
            >= metrics[id].successful_requests + metrics[id].failed_requests - 1

\* C19: once cleanup_resources has run, shutdown_in_progress is set, every
\* registered stop event is set and every registered session, socket and pool
\* has been closed or shut down.
C19_CleanupComplete ==
    (shutdown_in_progress /\ cleanup = <<>>)
        => /\ \A id \in DOMAIN test_stop_events : test_stop_events[id]
           /\ (active_sessions \cup active_sockets \cup active_executors) \subseteq closed

\* C20: when a thread has returned, every socket it opened has been closed.
C20_SocketsClosedAtExit ==
    \A u \in DOMAIN units :
        units[u].pc = "exited"
            => \A s \in opened : (s[1] = "socket" /\ s[2] = u) => s \in closed

\* C21: GET /status/{id} includes current_metrics for a running test and results
\* for a completed, failed or stopped test.
C21_StatusBody ==
    (wresp.op = "get_test_status" /\ wresp.code = 200)
        => /\ wresp.body.status = "running" => Has(wresp.body, "current_metrics")
           /\ wresp.body.status \in {"completed", "failed", "stopped"}
                 => Has(wresp.body, "results")

----------------------------------------------------------------------------
(* Properties of the proxy service *)

\* The proxies of the pool, of every type
Pool == UNION {proxies[proxy_type] : proxy_type \in ProxyType}

\* C22: every proxy that GET /proxies returns with valid_only=true has
\* is_valid = true, never false and never unvalidated (None), whatever refresh
\* and validation runs came before.
C22_ValidOnlyServesValid ==
    (presp.op = "get_proxies" /\ presp.code = 200 /\ presp.valid_only)
        => \A p \in presp.body : p.is_valid = Some(TRUE)

\* C22 happens: a valid_only request is answered with a validated proxy while
\* the pool also holds an unvalidated one
C22_Witness ==
    /\ presp.op = "get_proxies" /\ presp.code = 200 /\ presp.valid_only
    /\ presp.body # {}
    /\ \E p \in Pool : p.is_valid = None

\* C23: GET /proxies with type=0 is answered like a request without a type, with
\* status 200 (it is not rejected); a type of 1, 4 or 5 gets only proxies of that
\* type, and any other type gets 400.
C23_TypeZeroMeansAll ==
    presp.op = "get_proxies" =>
        CASE presp.type = None \/ presp.type = Some(0) -> presp.code = 200
          [] presp.type \in {Some(1), Some(4), Some(5)} ->
                 /\ presp.code = 200
                 /\ \A p \in presp.body : p.type = Head(presp.type)
          [] OTHER -> presp.code = 400

\* C24: after any refresh and validation runs, concurrent ones included, the
\* pool holds at most one proxy per identity (host, port, type) and no proxy with
\* is_valid = false.
C24_PoolIsASetOfUsable ==
    /\ \A p, q \in Pool : ProxyKey(p) = ProxyKey(q) => p = q
    /\ \A p \in Pool : p.is_valid # Some(FALSE)
    /\ \A proxy_type \in ProxyType : \A p \in proxies[proxy_type] : p.type = proxy_type

\* C24 happens: a validation run has found one proxy valid and removed another,
\* and a refresh is in flight together with a validation run
C24_Witness ==
    /\ \E p \in Pool : p.is_valid = Some(TRUE)
    /\ \E k \in ProxyIdentities : \A p \in Pool : ProxyKey(p) # k
    /\ \E t \in BagToSet(proxy_tasks) : t.kind = "refresh"
    /\ \E t \in BagToSet(proxy_tasks) : t.kind = "validate" /\ t.pc = "gather"
                                         /\ t.proxies_to_validate # {}

----------------------------------------------------------------------------
(* Properties of the gateway *)

\* C25: when the orchestrator answers a forwarded request with 400 or 403, the
\* gateway's client gets an error response with that status, never a success
\* response.
C25_RejectionSurfaces ==
    gresp.upstream \in {400, 403} => gresp.code = gresp.upstream

----------------------------------------------------------------------------
(* Properties of the executor and of routing *)

\* The executor of test i has sent POST /execute and waits for the answer
\* ("starting"); before that it is "queued" or in get_proxies
BeforeStart == {"queued", "get_proxies"}

\* C26: the executor sends at most one POST /execute per test (it is sent when
\* the executor first leaves its preparation and never again); if the start call
\* fails (non-200 status, missing test_id, transport error) the test becomes
\* FAILED with the error as its result and the executor ends: it sends no status
\* poll and no DELETE afterwards.
C26_StartOnceFailureFinal ==
    [][exec' # exec =>
        \A i \in DOMAIN exec :
           /\ (exec[i].pc # "starting" /\ exec'[i].pc = "starting")
                 => exec[i].pc \in BeforeStart
           /\ exec[i].pc \notin BeforeStart => exec'[i].pc \notin BeforeStart
           /\ exec[i].pc \notin BeforeStart \cup {"starting"}
                 => exec'[i].pc \notin BeforeStart \cup {"starting"}
           /\ (exec[i].pc = "starting" /\ exec'[i].pc # "starting"
                  /\ exec'[i].module_test_id = None)
                 => /\ exec'[i].pc = "done"
                    /\ tests'[i].status = FAILED
                    /\ Has(test_results', i) /\ Has(test_results'[i], "error")
                    /\ test_results'[i].error \in StartAnswers \ {"started"}
                    /\ fleet' = fleet
           /\ exec[i].pc = "done" => exec'[i] = exec[i]]_vars

\* C26 happens: a POST /execute was sent for a test and failed; the test is
\* FAILED with the error stored and its executor has ended without a fleet test
C26_Witness ==
    \E i \in DOMAIN exec :
        /\ exec[i].pc = "done" /\ exec[i].service_url # ""
        /\ exec[i].module_test_id = None
        /\ tests[i].status = FAILED
        /\ Has(test_results, i) /\ Has(test_results[i], "error")
        /\ test_results[i].error \in {"rejected", "no_test_id", "transport_error"}

\* C27: when a status poll returns a remote status of completed, failed or
\* stopped, the local status becomes the same status (completed, failed,
\* stopped), the remote results are copied and end_time is set.
C27_PollCopiesRemoteStatus ==
    [][\A i \in DOMAIN exec :
          (/\ exec[i].pc = "polling" /\ exec'[i].pc = "done"
           /\ ~(Has(test_results', i) /\ test_results'[i] = [error |-> "invalid status body"]))
          => LET module_status == FleetStatus(fleet, exec[i].service_url,
                                              Head(exec[i].module_test_id))
             IN /\ tests'[i].status = module_status.status
                /\ test_results'[i] = module_status.results
                /\ Has(tests'[i], "end_time")]_vars

\* C28: a status poll is started only before start_time + duration + 60; when
\* the poll loop ends with the status still RUNNING the executor sends the
\* DELETE, and the test becomes COMPLETED with the timed-out result whether or not
\* the DELETE is delivered; a poll that fails before the deadline leaves the
\* status as it was (RUNNING) and the loop goes on.
C28_DeadlineAndFailedPoll ==
    [][exec' # exec =>
        \A i \in DOMAIN exec :
           /\ (exec[i].pc # "polling" /\ exec'[i].pc = "polling")
                 => now < tests'[i].start_time + tests'[i].duration + 60
           /\ (exec[i].pc \in {"starting", "sleeping"} /\ exec'[i].pc # exec[i].pc
                  /\ tests'[i].status = RUNNING)
                 => exec'[i].pc \in {"polling", "stopping"}
           /\ (exec[i].pc = "stopping" /\ exec'[i].pc # "stopping")
                 => /\ tests'[i].status = COMPLETED
                    /\ test_results'[i] = [message |-> "Test completed after maximum duration"]
           /\ (exec[i].pc = "polling" /\ exec'[i].pc # "polling")
                 => LET module_status == FleetStatus(fleet, exec[i].service_url,
                                                     Head(exec[i].module_test_id))
                    IN \/ /\ exec'[i].pc = "sleeping"
                          /\ tests'[i].status = tests[i].status
                       \/ /\ exec'[i].pc = "done"
                          /\ Has(module_status, "results")
                          /\ test_results'[i] = module_status.results]_vars

\* C29: the executor contacts only the fleet of its method's protocol (http: the
\* HTTP fleet; tcp and udp: the TCP fleet; dns: the DNS fleet). A test with an
\* ICMP method is accepted by create_test, no fleet is contacted for it and it
\* ends FAILED.
C29_RoutedByProtocol ==
    LET FleetOf(protocol) ==
            CASE protocol = "http" -> "HTTP_MODULE_URL"
              [] protocol \in {"tcp", "udp"} -> "TCP_MODULE_URL"
              [] protocol = "dns" -> "DNS_MODULE_URL"
              [] OTHER -> ""
    IN /\ \A m \in DOMAIN AVAILABLE_METHODS :
             get_service_url(m) = IF AVAILABLE_METHODS[m] = "icmp" THEN "ValueError"
                                  ELSE FleetOf(AVAILABLE_METHODS[m])
       /\ \A i \in DOMAIN exec :
             LET protocol == AVAILABLE_METHODS[tests[i].method] IN
             /\ exec[i].service_url \in {"", FleetOf(protocol)}
             /\ exec[i].pc \in {"starting", "polling", "sleeping", "stopping"}
                   => exec[i].service_url = FleetOf(protocol) /\ protocol # "icmp"
             /\ ModuleId(i) \in DOMAIN fleet => fleet[ModuleId(i)].service = FleetOf(protocol)
             /\ protocol = "icmp"
                   => /\ exec[i].pc \in {"queued", "done"}
                      /\ exec[i].service_url = ""
                      /\ exec[i].pc = "done" => tests[i].status = FAILED

\* C29 happens: an ICMP test was accepted, its executor has ended, the test is
\* FAILED and no fleet holds a test
C29_Witness ==
    \E i \in DOMAIN exec :
        /\ tests[i].method = "ICMP_FLOOD"
        /\ exec[i].pc = "done"
        /\ tests[i].status = FAILED
        /\ fleet = <<>>

\* C30: every method a worker fleet executes (SYN_FLOOD on the TCP fleet among
\* them) is accepted by create_test when the rest of the request is valid, and
\* an accepted test is routed to a fleet that implements its method.
C30_FleetMethodsAccepted ==
    /\ (/\ resp.op = "create_test" /\ verify_user(resp.user)
         /\ TestRequestValid(resp.arg)
         /\ \E service_url \in Fleets : resp.arg.method \in FleetTestMethods(service_url))
        => resp.code = 200
    /\ \A i \in DOMAIN exec :
          exec[i].service_url # "" => tests[i].method \in FleetTestMethods(exec[i].service_url)

\* C31: a test without proxy_type never makes the executor contact the proxy
\* service; with proxy_type set, whatever way the proxy fetch fails (transport
\* error, error status, malformed or non-list body), the executor goes on to send
\* POST /execute and the fetch does not change the test's status.
C31_ProxyFailureTolerated ==
    [][exec' # exec =>
        \A i \in DOMAIN exec :
           /\ exec'[i].pc = "get_proxies" => tests'[i].proxy_type # None
           /\ (exec[i].pc = "get_proxies" /\ exec'[i].pc # "get_proxies")
                 => /\ exec'[i].pc = "starting"
                    /\ tests'[i].status = tests[i].status]_vars

\* C32: when the spawn loop of a test method is over, the test has exactly as
\* many worker threads as its threads value, also when the stop event or the
\* shutdown flag was set while threads were being submitted.
C32_SpawnsExactlyThreads ==
    (run # None /\ Head(run).pc # "submit")
        => Cardinality({u \in DOMAIN units : units[u].test_id = Head(run).test_id})
              = active_tests[Head(run).test_id].params.threads

\* C33: once the stop of a test has been requested, each of its threads
\* increments each counter of the test at most once more before it leaves its
\* loop, also in the methods with an inner loop over connections (SLOW_LORIS).
C33_OneIncrementAfterStop ==
    \A u \in DOMAIN units : \A c \in Counters : units[u].late[c] <= 1

\* C34: when the wait for the threads of a run has timed out while a thread is
\* still running, the run can go on at once: its result is recorded and its
\* status is finalized without waiting for that thread.
C34_TimeoutProceeds ==
    (run # None /\ Head(run).pc = "join" /\ ~exiting /\ cleanup = <<>>)
        => ENABLED RunEnd

\* C35: once shutdown_in_progress is set, no session, socket or pool is added
\* to a registry, whatever the interleaving of a thread's register call with
\* cleanup_resources.
C35_NoRegistrationAfterShutdown ==
    [][shutdown_in_progress =>
          /\ active_sessions' \subseteq active_sessions
          /\ active_sockets' \subseteq active_sockets
          /\ active_executors' \subseteq active_executors]_wvars

\* C36: a worker-side test whose status is stopped, completed or failed keeps
\* that status; a test that DELETE marked stopped is not turned into failed by
\* an exception in its run.
C36_TerminalStatusFinal ==
    [][\A id \in DOMAIN active_tests :
          active_tests[id].status \in {"stopped", "completed", "failed"}
              => active_tests'[id].status = active_tests[id].status]_wvars

\* C37: every call of cleanup_resources returns: no call waits for cleanup_lock
\* while the call that holds it is the one it interrupted on the same thread.
C37_CleanupReturns ==
    cleanup # <<>> => ENABLED CleanupSweep

\* C38: when the result of a test has been recorded, every thread of the test
\* has returned, and the counters in the result are the counters of the test:
\* none changes after the result was recorded.
C38_ResultIsFinal ==
    \A id \in DOMAIN module_results :
        Has(module_results[id], "metrics")
            => /\ \A u \in DOMAIN units :
                     units[u].test_id = id => units[u].pc = "exited"
               /\ module_results[id].metrics = metrics[id]

\* C38 witness: a recorded result of a test whose threads sent requests, after a
\* wait that ended with every thread returned.
C38_Witness ==
    \E id \in DOMAIN module_results :
        /\ Has(module_results[id], "metrics")
        /\ module_results[id].metrics.requests_sent > 0
        /\ Cardinality({u \in DOMAIN units : units[u].test_id = id}) = MaxUnits
        /\ run = None

\* C39: at most one refresh_proxies run is in flight at any time, however many
\* GET /proxies requests arrive while the pool is older than the refresh
\* interval.
C39_OneRefreshInFlight ==
    \A t \in BagToSet(proxy_tasks) :
        \A other \in BagToSet(proxy_tasks) :
            (t.kind = "refresh" /\ other.kind = "refresh")
                => t = other /\ CopiesIn(t, proxy_tasks) = 1

\* C40: every client POST /api/test the gateway forwards leaves at most one test
\* record at the orchestrator, and so at most one remote job, also when an
\* attempt of make_request times out after the orchestrator has processed it
\* and the gateway retries.
C40_OneRecordPerPost ==
    /\ Len(tests) <= Len(gcalls)
    /\ Cardinality(DOMAIN fleet) <= Len(gcalls)
====
